---- MODULE Spec2Model ----
(***************************************************************************)
(* Quota-aware, plan-aware text-to-speech routing and usage accounting.    *)
(*                                                                         *)
(*   text-to-speech edge function   src/unnamed/part_010 lines 1-318       *)
(*   manage-subscription function   src/unnamed/part_010 lines 320-970     *)
(*   subscriptions schema           src/unnamed/part_010 lines 972-1107    *)
(*   useSmartTTS (client router)    src/unnamed/part_003 lines 1-422       *)
(*   useNativeTTS (browser speech)  src/unnamed/part_000                   *)
(***************************************************************************)
EXTENDS Integers, Sequences, FiniteSets, TLC

(***************************************************************************)
(* Texts.  A text is a sequence of characters; a character is a one-token  *)
(* string.  The alphabet holds one representative of every class the code  *)
(* treats differently.                                                     *)
(***************************************************************************)
Star      == "*"
Tick      == "BACKTICK"
Hash      == "#"
Space     == " "
Newline   == "\n"
Dot       == "."
Emoji     == "U+1F600"   \* a code point of the range 1F600-1F64F (two UTF-16 units)
Hindi     == "U+0915"    \* a code point of the Devanagari block 0900-097F
LetterLow == "a"
LetterUp  == "A"

\* String.prototype.length counts UTF-16 code units
CodeUnits(c) == IF c = Emoji THEN 2 ELSE 1

RECURSIVE SumUnits(_, _)
SumUnits(t, i) ==
  IF i > Len(t) THEN 0 ELSE CodeUnits(t[i]) + SumUnits(t, i + 1)

\* text.length; a text without astral code points has one unit per character
JsLength(t) ==
  IF \A i \in 1..Len(t) : t[i] # Emoji THEN Len(t) ELSE SumUnits(t, 1)

\* the class \s of a JavaScript regular expression
IsSpace(c) == c \in {Space, Newline}

\* the class . of a JavaScript regular expression without the s flag
IsDotChar(c) == c # Newline

\* the emoji ranges of the server's sanitizeText (part_010 lines 16-22)
IsServerEmoji(c) == c = Emoji

\* smallest index j >= i with t[j] = c, or Len(t) + 1
NextIdx(t, i, c) ==
  LET S == {j \in i..Len(t) : t[j] = c}
  IN  IF S = {} THEN Len(t) + 1 ELSE CHOOSE j \in S : \A k \in S : j <= k

\* .replace(/\*\*(.*?)\*\*/g, '$1'): scanning from i, a match starts at the
\* first "**" that is closed by a later "**" with no line break in between
RECURSIVE StripDouble(_, _, _)
StripDouble(t, i, c) ==
  IF i > Len(t) THEN <<>>
  ELSE LET j == NextIdx(t, i, c)
       IN  IF j > Len(t) THEN SubSeq(t, i, Len(t))
           ELSE IF j + 1 <= Len(t) /\ t[j + 1] = c
             THEN LET C == {k \in (j + 2)..(Len(t) - 1) :
                              /\ t[k] = c /\ t[k + 1] = c
                              /\ \A m \in (j + 2)..(k - 1) : IsDotChar(t[m])}
                  IN  IF C = {}
                        THEN SubSeq(t, i, j) \o StripDouble(t, j + 1, c)
                        ELSE LET k == CHOOSE x \in C : \A y \in C : x <= y
                             IN  SubSeq(t, i, j - 1) \o SubSeq(t, j + 2, k - 1)
                                   \o StripDouble(t, k + 2, c)
             ELSE SubSeq(t, i, j) \o StripDouble(t, j + 1, c)

\* .replace(/\*(.*?)\*/g, '$1') and .replace(/`(.*?)`/g, '$1')
RECURSIVE StripSingle(_, _, _)
StripSingle(t, i, c) ==
  IF i > Len(t) THEN <<>>
  ELSE LET j == NextIdx(t, i, c)
       IN  IF j > Len(t) THEN SubSeq(t, i, Len(t))
           ELSE LET k == NextIdx(t, j + 1, c)
                IN  IF k <= Len(t) /\ \A m \in (j + 1)..(k - 1) : IsDotChar(t[m])
                      THEN SubSeq(t, i, j - 1) \o SubSeq(t, j + 1, k - 1)
                             \o StripSingle(t, k + 1, c)
                      ELSE SubSeq(t, i, j) \o StripSingle(t, j + 1, c)

\* length of the run of # starting at j
HashRun(t, j) ==
  LET E == {k \in j..Len(t) : t[k] # Hash}
  IN  IF E = {} THEN Len(t) + 1 - j
      ELSE (CHOOSE k \in E : \A m \in E : k <= m) - j

\* .replace(/#{1,6}\s/g, ''): one to six # followed by one white-space character
RECURSIVE StripHeadings(_, _)
StripHeadings(t, i) ==
  IF i > Len(t) THEN <<>>
  ELSE LET j == NextIdx(t, i, Hash)
       IN  IF j > Len(t) THEN SubSeq(t, i, Len(t))
           ELSE LET r == HashRun(t, j)
                IN  IF r <= 6 /\ j + r <= Len(t) /\ IsSpace(t[j + r])
                      THEN SubSeq(t, i, j - 1) \o StripHeadings(t, j + r + 1)
                      ELSE SubSeq(t, i, j) \o StripHeadings(t, j + 1)

\* .replace(/\n+/g, '. '): every maximal run of line breaks becomes ". "
RECURSIVE BreaksToDots(_, _)
BreaksToDots(t, i) ==
  IF i > Len(t) THEN <<>>
  ELSE LET j == NextIdx(t, i, Newline)
       IN  IF j > Len(t) THEN SubSeq(t, i, Len(t))
           ELSE LET E == {k \in j..Len(t) : t[k] # Newline}
                    e == IF E = {} THEN Len(t) + 1
                         ELSE CHOOSE k \in E : \A m \in E : k <= m
                IN  SubSeq(t, i, j - 1) \o <<Dot, Space>> \o BreaksToDots(t, e)

\* .replace(/\s+/g, ' '): every maximal run of white space becomes one space
CollapseSpaces(t) ==
  LET marked == [i \in 1..Len(t) |->
                   IF IsSpace(t[i])
                     THEN IF i > 1 /\ IsSpace(t[i - 1]) THEN "drop" ELSE Space
                     ELSE t[i]]
      Keep(c) == c # "drop"
  IN  SelectSeq(marked, Keep)

\* .trim()
Trim(t) ==
  LET N == {i \in 1..Len(t) : ~IsSpace(t[i])}
  IN  IF N = {} THEN <<>>
      ELSE SubSeq(t, CHOOSE i \in N : \A k \in N : i <= k,
                     CHOOSE i \in N : \A k \in N : i >= k)

NotServerEmoji(c) == ~IsServerEmoji(c)

\* sanitizeText of the text-to-speech function
sanitizeText(t) ==
  LET s1 == SelectSeq(t, NotServerEmoji)
      s2 == StripDouble(s1, 1, Star)
      s3 == StripSingle(s2, 1, Star)
      s4 == StripSingle(s3, 1, Tick)
      s5 == StripHeadings(s4, 1)
      s6 == BreaksToDots(s5, 1)
      s7 == CollapseSpaces(s6)
  IN  Trim(s7)

\* useNativeTTS.sanitizeText: the same pipeline with fewer emoji ranges; the
\* alphabet's emoji lies in a range both remove
nativeSanitizeText(t) ==
  LET s1 == SelectSeq(t, NotServerEmoji)
      s2 == StripDouble(s1, 1, Star)
      s3 == StripSingle(s2, 1, Star)
      s4 == StripSingle(s3, 1, Tick)
      s5 == StripHeadings(s4, 1)
      s6 == BreaksToDots(s5, 1)
      s7 == CollapseSpaces(s6)
  IN  Trim(s7)

LBracket == "["
RBracket == "]"
LParen   == "("
RParen   == ")"
Bullet   == "U+2022"   \* one of the bullet characters the Capacitor hook removes

\* .replace(/\[([^\]]+)\]\([^)]+\)/g, '$1'): "[", one or more characters
\* up to the first "]", "(", one or more characters up to the first ")"
RECURSIVE StripLinks(_, _)
StripLinks(t, i) ==
  IF i > Len(t) THEN <<>>
  ELSE LET j == NextIdx(t, i, LBracket)
       IN  IF j > Len(t) THEN SubSeq(t, i, Len(t))
           ELSE LET k == NextIdx(t, j + 1, RBracket)
                    m == NextIdx(t, k + 2, RParen)
                IN  IF /\ k <= Len(t) /\ k > j + 1
                       /\ k + 1 <= Len(t) /\ t[k + 1] = LParen
                       /\ m <= Len(t) /\ m > k + 2
                      THEN SubSeq(t, i, j - 1) \o SubSeq(t, j + 1, k - 1)
                             \o StripLinks(t, m + 1)
                      ELSE SubSeq(t, i, j) \o StripLinks(t, j + 1)

NotBullet(c) == c # Bullet

\* useNativeTTS.sanitizeText of the Capacitor hook (part_001): markdown and
\* links first, then emojis and bullets; line breaks are white space only
capacitorSanitizeText(t) ==
  LET s1 == StripDouble(t, 1, Star)
      s2 == StripSingle(s1, 1, Star)
      s3 == StripSingle(s2, 1, Tick)
      s4 == StripHeadings(s3, 1)
      s5 == StripLinks(s4, 1)
      s6 == SelectSeq(s5, NotServerEmoji)
      s7 == SelectSeq(s6, NotBullet)
      s8 == CollapseSpaces(s7)
  IN  Trim(s8)

\* String.prototype.toLowerCase
ToLowerCase(t) == [i \in 1..Len(t) |-> IF t[i] = LetterUp THEN LetterLow ELSE t[i]]

\* String.prototype.substring(0, n)
Substring0(t, n) == SubSeq(t, 1, IF Len(t) < n THEN Len(t) ELSE n)

\* containsHindi
containsHindi(t) == \E i \in 1..Len(t) : t[i] = Hindi

(***************************************************************************)
(* The texts of the system model.                                          *)
(***************************************************************************)
Letters(n) == [i \in 1..n |-> LetterLow]

Texts == <<
  Letters(5),                                        \* "Hello"
  Letters(10),                                       \* ten plain characters
  <<Star, Star, LetterLow, Star, Star, Space, LetterUp>>,  \* "**a** A"
  <<Emoji>>,                                         \* nothing speakable
  Letters(2001),                                     \* longer than maxLength
  <<Space>> >>                                       \* blank

TextIds == DOMAIN Texts

\* maxLength of the serve handler
maxLength == 2000

Ellipsis == <<Dot, Dot, Dot>>

\* truncatedText of the serve handler
truncate(clean) ==
  IF Len(clean) > maxLength THEN SubSeq(clean, 1, maxLength) \o Ellipsis ELSE clean

CleanText == [i \in TextIds |-> sanitizeText(Texts[i])]

TruncatedText == [i \in TextIds |-> truncate(CleanText[i])]

\* text.length of the raw text
RawLen == [i \in TextIds |-> JsLength(Texts[i])]

\* text.trim().length === 0
IsBlank == [i \in TextIds |-> Trim(Texts[i]) = <<>>]

NativeClean == [i \in TextIds |-> nativeSanitizeText(Texts[i])]

\* getCacheKey: `${model}:${voiceId}:${normalizedText}`
getCacheKey(text, voiceId, model) ==
  <<model, voiceId, Substring0(ToLowerCase(sanitizeText(text)), 500)>>

ServerKey == [i \in TextIds |-> getCacheKey(TruncatedText[i], "henry", "simba-multilingual")]

\* cacheKey of speakPremium: `${voiceId}:${text.substring(0, 200)}`
ClientKey == [i \in TextIds |-> <<"henry", Substring0(Texts[i], 200)>>]

\* Map keys are compared by value: a key is represented by the first text
\* of the table that has it
ServerKeyOf(i) == CHOOSE j \in TextIds :
                    /\ ServerKey[j] = ServerKey[i]
                    /\ \A k \in TextIds : ServerKey[k] = ServerKey[i] => j <= k

ClientKeyOf(i) == CHOOSE j \in TextIds :
                    /\ ClientKey[j] = ClientKey[i]
                    /\ \A k \in TextIds : ClientKey[k] = ClientKey[i] => j <= k

(***************************************************************************)
(* Bounds of the model.                                                    *)
(***************************************************************************)
MaxReqs  == 2      \* function invocations in one behaviour
MaxCalls == 2      \* speak() calls of the client session
MaxTicks == 1      \* clock steps
MaxFetches == 1    \* fetchUsageInfo calls of the session
MaxOps == 2        \* manage-subscription invocations that change the store

ReqIds  == 1..MaxReqs
CallIds == 1..MaxCalls
OpIds   == 1..MaxOps

\* a nullable value is the empty tuple (null) or a one-element tuple
None == <<>>
Some(x) == <<x>>
Null == "null"

\* The clock counts seconds (32-bit integers do not hold 30 days of
\* milliseconds); every duration of the code is converted to seconds.
\* one clock step: 40 minutes
TickSec == 40 * 60

\* CACHE_TTL_MS = 30 * 60 * 1000 ms
CACHE_TTL_MS == 30 * 60

\* tts_limit INTEGER NOT NULL DEFAULT 150000
DefaultLimit == 150000

\* audioCache.size > 100
ServerCacheMax == 100

\* clientAudioCache.size > 50
ClientCacheMax == 50

VARIABLES
  now,                \* Date.now(), in seconds since the start
  ticks,              \* clock steps taken
  sub,                \* the student's row of public.subscriptions, or None
  audioCache,         \* server Map, in insertion order: <<[key, audio, timestamp]>>
  reqs,               \* invocations of the edge functions
  studentId,          \* the hook's studentId argument: TRUE when it is known
  usageInfo,          \* state.usageInfo, or None
  fetch,              \* fetchUsageInfo: calls made, and the response in flight
  isLoading,          \* state.isLoading
  isSpeaking,         \* state.isSpeaking
  error,              \* state.error
  audioRef,           \* audioRef.current: Some(call whose Audio it holds), or None
  abortControllerRef, \* abortControllerRef.current: Some(call that created it), or None
  clientAudioCache,   \* client Map, in insertion order: <<key>>
  calls,              \* the speak() calls of the session
  native,             \* useNativeTTS: isSupported, isSpeaking, the utterance spoken
  upgrade_requests,   \* the student's rows of public.upgrade_requests, oldest first
  ops,                \* invocations of manage-subscription that change the store
  view,               \* useSubscription: subscription, pendingRequest, loading, error
  probe               \* the last result a caller obtained from a function under test

vars == <<now, ticks, sub, audioCache, reqs, studentId, usageInfo, fetch, isLoading,
          isSpeaking, error, audioRef, abortControllerRef, clientAudioCache, calls,
          native, upgrade_requests, ops, view, probe>>

\* what the text-to-speech path and useSmartTTS never touch
otherVars == <<upgrade_requests, ops, view, probe>>

serverVars == <<sub, audioCache, reqs>>
clientVars == <<studentId, usageInfo, fetch, isLoading, isSpeaking, error, audioRef,
                abortControllerRef, clientAudioCache, calls, native>>

(***************************************************************************)
(* The usage ledger: checkAndTrackUsage and increment_tts.                 *)
(***************************************************************************)
NoInfo == None

\* isExpired: sub.end_date && new Date(sub.end_date) < new Date()
IsExpired(s, t) == s.end_date # None /\ s.end_date[1] < t

\* checkAndTrackUsage with a strict quota test: a request that fills the
\* quota exactly is refused
checkAndTrackUsageStrictQuota(s, textLength, t) ==
  IF s = None
    THEN [canUse |-> FALSE, reason |-> "No subscription found",
          usageInfo |-> NoInfo, newUsed |-> None]
  ELSE LET isPro     == s.plan = "pro" /\ s.is_active
           newTtsUsed == s.tts_used + textLength
       IN  IF ~isPro
             THEN [canUse |-> FALSE, reason |-> "Basic plan - use Web TTS",
                   usageInfo |-> [plan |-> "basic", ttsUsed |-> s.tts_used,
                                  ttsLimit |-> s.tts_limit,
                                  ttsRemaining |-> s.tts_limit - s.tts_used,
                                  canUsePremium |-> FALSE],
                   newUsed |-> None]
           ELSE IF IsExpired(s, t)
             THEN [canUse |-> FALSE, reason |-> "Pro subscription expired",
                   usageInfo |-> NoInfo, newUsed |-> None]
           ELSE IF ~(newTtsUsed < s.tts_limit)
             THEN [canUse |-> FALSE, reason |-> "TTS limit reached",
                   usageInfo |-> [plan |-> "pro", ttsUsed |-> s.tts_used,
                                  ttsLimit |-> s.tts_limit, ttsRemaining |-> 0,
                                  canUsePremium |-> FALSE],
                   newUsed |-> None]
           ELSE [canUse |-> TRUE, reason |-> Null,
                 usageInfo |-> [plan |-> "pro", ttsUsed |-> newTtsUsed,
                                ttsLimit |-> s.tts_limit,
                                ttsRemaining |-> s.tts_limit - newTtsUsed,
                                canUsePremium |-> newTtsUsed < s.tts_limit],
                 newUsed |-> Some(newTtsUsed)]

\* checkAndTrackUsage with a denial that writes: a request over the quota is
\* refused and the usage is set to the limit
checkAndTrackUsageDenialWrites(s, textLength, t) ==
  IF s = None
    THEN [canUse |-> FALSE, reason |-> "No subscription found",
          usageInfo |-> NoInfo, newUsed |-> None]
  ELSE LET isPro     == s.plan = "pro" /\ s.is_active
           newTtsUsed == s.tts_used + textLength
       IN  IF ~isPro
             THEN [canUse |-> FALSE, reason |-> "Basic plan - use Web TTS",
                   usageInfo |-> [plan |-> "basic", ttsUsed |-> s.tts_used,
                                  ttsLimit |-> s.tts_limit,
                                  ttsRemaining |-> s.tts_limit - s.tts_used,
                                  canUsePremium |-> FALSE],
                   newUsed |-> None]
           ELSE IF IsExpired(s, t)
             THEN [canUse |-> FALSE, reason |-> "Pro subscription expired",
                   usageInfo |-> NoInfo, newUsed |-> None]
           ELSE IF ~(newTtsUsed <= s.tts_limit)
             THEN [canUse |-> FALSE, reason |-> "TTS limit reached",
                   usageInfo |-> [plan |-> "pro", ttsUsed |-> s.tts_used,
                                  ttsLimit |-> s.tts_limit, ttsRemaining |-> 0,
                                  canUsePremium |-> FALSE],
                   newUsed |-> Some(s.tts_limit)]
           ELSE [canUse |-> TRUE, reason |-> Null,
                 usageInfo |-> [plan |-> "pro", ttsUsed |-> newTtsUsed,
                                ttsLimit |-> s.tts_limit,
                                ttsRemaining |-> s.tts_limit - newTtsUsed,
                                canUsePremium |-> newTtsUsed < s.tts_limit],
                 newUsed |-> Some(newTtsUsed)]

\* checkAndTrackUsage, from the row it read to its result; newUsed is the
\* value its update writes (None: it returns before the update)
checkAndTrackUsage(s, textLength, t) ==
  IF s = None
    THEN [canUse |-> FALSE, reason |-> "No subscription found",
          usageInfo |-> NoInfo, newUsed |-> None]
  ELSE LET isPro     == s.plan = "pro" /\ s.is_active
           isExpired == IsExpired(s, t)
           hasQuota  == s.tts_used + textLength <= s.tts_limit
           newTtsUsed == s.tts_used + textLength
       IN  IF ~isPro
             THEN [canUse |-> FALSE, reason |-> "Basic plan - use Web TTS",
                   usageInfo |-> [plan |-> "basic", ttsUsed |-> s.tts_used,
                                  ttsLimit |-> s.tts_limit,
                                  ttsRemaining |-> s.tts_limit - s.tts_used,
                                  canUsePremium |-> FALSE],
                   newUsed |-> None]
           ELSE IF isExpired
             THEN [canUse |-> FALSE, reason |-> "Pro subscription expired",
                   usageInfo |-> NoInfo, newUsed |-> None]
           ELSE IF ~hasQuota
             THEN [canUse |-> FALSE, reason |-> "TTS limit reached",
                   usageInfo |-> [plan |-> "pro", ttsUsed |-> s.tts_used,
                                  ttsLimit |-> s.tts_limit, ttsRemaining |-> 0,
                                  canUsePremium |-> FALSE],
                   newUsed |-> None]
           ELSE [canUse |-> TRUE, reason |-> Null,
                 usageInfo |-> [plan |-> "pro", ttsUsed |-> newTtsUsed,
                                ttsLimit |-> s.tts_limit,
                                ttsRemaining |-> s.tts_limit - newTtsUsed,
                                canUsePremium |-> newTtsUsed < s.tts_limit],
                 newUsed |-> Some(newTtsUsed)]

\* case "increment_tts", from the row it read to its response
increment_tts(s, ttsCharacters, t) ==
  IF s = None
    THEN [canUse |-> FALSE, reason |-> "No subscription found",
          usageInfo |-> NoInfo, newUsed |-> None]
  ELSE LET isPro     == s.plan = "pro" /\ s.is_active
           hasQuota  == s.tts_used + ttsCharacters <= s.tts_limit
           isExpired == IsExpired(s, t)
       IN  IF isPro /\ hasQuota /\ ~isExpired
             THEN [canUse |-> TRUE, reason |-> Null,
                   usageInfo |-> [plan |-> "pro",
                                  ttsUsed |-> s.tts_used + ttsCharacters,
                                  ttsLimit |-> s.tts_limit,
                                  ttsRemaining |->
                                    s.tts_limit - (s.tts_used + ttsCharacters)],
                   newUsed |-> Some(s.tts_used + ttsCharacters)]
             ELSE [canUse |-> FALSE,
                   reason |-> IF isPro /\ isExpired THEN "Subscription expired"
                              ELSE IF isPro /\ ~hasQuota THEN "TTS limit reached"
                              ELSE "Basic plan",
                   usageInfo |-> NoInfo, newUsed |-> None]

\* .update({ tts_used }).eq('id', sub.id): the row keeps its other columns
UpdateUsed(s, newUsed) ==
  IF s = None \/ newUsed = None THEN s ELSE [s EXCEPT !.tts_used = newUsed[1]]

(***************************************************************************)
(* Function invocations.  pc: idle (unused slot), sent (on its way to the  *)
(* function), write (the ledger update is outstanding), vendor (the        *)
(* Speechify call is outstanding), responded (the response is on its way   *)
(* back), done.                                                            *)
(***************************************************************************)
IdleReq == [pc |-> "idle", kind |-> "tts", text |-> 1, n |-> 0, sid |-> FALSE,
            owner |-> 0, chk |-> None, resp |-> None]

NewTtsReq(text, sid, owner) ==
  [pc |-> "sent", kind |-> "tts", text |-> text, n |-> 0, sid |-> sid,
   owner |-> owner, chk |-> None, resp |-> None]

NewIncReq(n) ==
  [pc |-> "sent", kind |-> "inc", text |-> 1, n |-> n, sid |-> TRUE,
   owner |-> 0, chk |-> None, resp |-> None]

\* a slot whose response was received
DoneReq == [IdleReq EXCEPT !.pc = "done"]

FreeReqs == {r \in ReqIds : reqs[r].pc = "idle"}

\* the slot a new invocation takes
NextReq == CHOOSE r \in FreeReqs : \A q \in FreeReqs : r <= q

\* a cleanCache that sweeps nothing
cleanCacheKeepsAll(cache, t) == cache

\* cleanCache: entries older than the TTL are deleted
cleanCache(cache, t) ==
  LET Fresh(e) == ~(t - e.timestamp > CACHE_TTL_MS)
  IN  SelectSeq(cache, Fresh)

\* audioCache.get(cacheKey)
CacheGet(cache, key) ==
  LET H == {i \in 1..Len(cache) : cache[i].key = key}
  IN  IF H = {} THEN None ELSE Some(cache[CHOOSE i \in H : TRUE])

\* audioCache.set(cacheKey, {audio, timestamp}): a Map keeps the position of
\* a key it already holds; then the oldest entry goes when size > 100
CacheStore(cache, key, audio, t) ==
  LET e == [key |-> key, audio |-> audio, timestamp |-> t]
      H == {i \in 1..Len(cache) : cache[i].key = key}
      c1 == IF H = {} THEN Append(cache, e)
            ELSE [i \in 1..Len(cache) |-> IF i \in H THEN e ELSE cache[i]]
  IN  IF Len(c1) > ServerCacheMax THEN Tail(c1) ELSE c1

\* the serve handler from "Check cache first" on: the request answers from
\* the cache or goes on to the vendor
CacheStage(r, rec, usage) ==
  LET cleaned == cleanCache(audioCache, now)
      cached  == CacheGet(cleaned, ServerKeyOf(rec.text))
  IN  /\ audioCache' = cleaned
      /\ reqs' = [reqs EXCEPT ![r] =
           IF cached # None
             THEN [rec EXCEPT !.pc = "responded",
                     !.resp = Some([kind |-> "audio", status |-> 200,
                                    audio |-> cached[1].audio, cached |-> TRUE,
                                    usageInfo |-> usage])]
             ELSE [rec EXCEPT !.pc = "vendor"]]

\* serve: the request arrives; text is checked, sanitized and truncated, and
\* with a studentId the subscription row is read and the usage decided
TtsReceive(r) ==
  /\ reqs[r].pc = "sent" /\ reqs[r].kind = "tts"
  /\ LET rec == reqs[r]
         cleanText == CleanText[rec.text]
         truncatedText == TruncatedText[rec.text]
     IN  IF cleanText = <<>>
           THEN /\ reqs' = [reqs EXCEPT ![r] =
                      [rec EXCEPT !.pc = "responded",
                         !.resp = Some([kind |-> "error", status |-> 400,
                                        error |-> "No speakable text provided"])]]
                /\ UNCHANGED <<sub, audioCache>>
         ELSE IF rec.sid
           THEN LET usageResult ==
                      checkAndTrackUsage(sub, JsLength(truncatedText), now)
                IN  /\ reqs' = [reqs EXCEPT ![r] =
                          IF usageResult.canUse \/ usageResult.newUsed # None
                            THEN [rec EXCEPT !.pc = "write", !.chk = Some(usageResult),
                                             !.n = JsLength(truncatedText)]
                            ELSE [rec EXCEPT !.pc = "responded",
                                    !.chk = Some(usageResult),
                                    !.n = JsLength(truncatedText),
                                    !.resp = Some(
                                      [kind |-> "fallback", status |-> 200,
                                       error |-> "FALLBACK_TO_WEB_TTS",
                                       reason |-> usageResult.reason,
                                       usageInfo |-> usageResult.usageInfo])]]
                    /\ UNCHANGED <<sub, audioCache>>
         ELSE /\ CacheStage(r, rec, NoInfo)
              /\ UNCHANGED sub
  /\ UNCHANGED <<now, ticks>>
  /\ UNCHANGED clientVars
  /\ UNCHANGED otherVars

\* checkAndTrackUsage: the update of tts_used reaches the store; the handler
\* goes on to the cache
TtsWrite(r) ==
  /\ reqs[r].pc = "write" /\ reqs[r].kind = "tts"
  /\ sub' = UpdateUsed(sub, reqs[r].chk[1].newUsed)
  /\ IF reqs[r].chk[1].canUse
       THEN CacheStage(r, reqs[r], reqs[r].chk[1].usageInfo)
       ELSE /\ reqs' = [reqs EXCEPT ![r] =
                 [@ EXCEPT !.pc = "responded",
                    !.resp = Some([kind |-> "fallback", status |-> 200,
                                   error |-> "FALLBACK_TO_WEB_TTS",
                                   reason |-> reqs[r].chk[1].reason,
                                   usageInfo |-> reqs[r].chk[1].usageInfo])]]
            /\ UNCHANGED audioCache
  /\ UNCHANGED <<now, ticks>>
  /\ UNCHANGED clientVars
  /\ UNCHANGED otherVars

\* what the Speechify call can come back with
VendorOutcomes == {"ok", "401", "429", "500", "no_audio_data"}

VendorStatus(o) == IF o = "401" THEN 401 ELSE IF o = "429" THEN 429 ELSE 500

\* serve: the Speechify call returns
VendorReply(r, outcome) ==
  /\ reqs[r].pc = "vendor"
  /\ IF outcome = "ok"
       THEN /\ audioCache' = CacheStore(audioCache, ServerKeyOf(reqs[r].text),
                                        reqs[r].text, now)
            /\ reqs' = [reqs EXCEPT ![r] =
                 [@ EXCEPT !.pc = "responded",
                    !.resp = Some([kind |-> "audio", status |-> 200,
                                   audio |-> reqs[r].text, cached |-> FALSE,
                                   usageInfo |-> IF reqs[r].chk = None THEN NoInfo
                                                 ELSE reqs[r].chk[1].usageInfo])]]
       ELSE /\ reqs' = [reqs EXCEPT ![r] =
                 [@ EXCEPT !.pc = "responded",
                    !.resp = Some([kind |-> "error", status |-> VendorStatus(outcome),
                                   error |-> outcome])]]
            /\ UNCHANGED audioCache
  /\ UNCHANGED <<now, ticks, sub>>
  /\ UNCHANGED clientVars
  /\ UNCHANGED otherVars

\* case "increment_tts": the request arrives and the row is read
IncReceive(r) ==
  /\ reqs[r].pc = "sent" /\ reqs[r].kind = "inc"
  /\ LET rec == reqs[r]
         res == increment_tts(sub, rec.n, now)
     IN  reqs' = [reqs EXCEPT ![r] =
           IF rec.n = 0    \* !body.ttsCharacters
             THEN [rec EXCEPT !.pc = "responded",
                     !.resp = Some([kind |-> "error", status |-> 400,
                                    error |-> "Student ID and character count required"])]
           ELSE IF res.canUse \/ res.newUsed # None
             THEN [rec EXCEPT !.pc = "write", !.chk = Some(res)]
           ELSE [rec EXCEPT !.pc = "responded", !.chk = Some(res),
                   !.resp = Some([kind |-> "inc", status |-> 200,
                                  usePremiumTTS |-> res.canUse,
                                  usageInfo |-> res.usageInfo])]]
  /\ UNCHANGED <<now, ticks, sub, audioCache>>
  /\ UNCHANGED clientVars
  /\ UNCHANGED otherVars

\* case "increment_tts": the update reaches the store and the response leaves
IncWrite(r) ==
  /\ reqs[r].pc = "write" /\ reqs[r].kind = "inc"
  /\ sub' = UpdateUsed(sub, reqs[r].chk[1].newUsed)
  /\ reqs' = [reqs EXCEPT ![r] =
       [@ EXCEPT !.pc = "responded",
          !.resp = Some([kind |-> "inc", status |-> 200,
                         usePremiumTTS |-> reqs[r].chk[1].canUse,
                         usageInfo |-> reqs[r].chk[1].usageInfo])]]
  /\ UNCHANGED <<now, ticks, audioCache>>
  /\ UNCHANGED clientVars
  /\ UNCHANGED otherVars

\* characters an increment_tts caller asks for
IncChars == {0, 10}

\* the system caller of increment_tts
IncInvoke(n) ==
  /\ FreeReqs # {}
  /\ reqs' = [reqs EXCEPT ![NextReq] = NewIncReq(n)]
  /\ UNCHANGED <<now, ticks, sub, audioCache>>
  /\ UNCHANGED clientVars
  /\ UNCHANGED otherVars

\* texts another device sends
OtherTexts == {1, 2}

\* another device invokes text-to-speech: the student's second device
\* (useSmartTTS, with the studentId) or useSpeechifyTTS (without one)
OtherInvoke(text, sid) ==
  /\ FreeReqs # {}
  /\ reqs' = [reqs EXCEPT ![NextReq] = NewTtsReq(text, sid, 0)]
  /\ UNCHANGED <<now, ticks, sub, audioCache>>
  /\ UNCHANGED clientVars
  /\ UNCHANGED otherVars

\* a response nobody of this session waits for is received elsewhere
OtherReceive(r) ==
  /\ reqs[r].pc = "responded" /\ reqs[r].owner = 0
  /\ reqs' = [reqs EXCEPT ![r] = DoneReq]
  /\ UNCHANGED <<now, ticks, sub, audioCache>>
  /\ UNCHANGED clientVars
  /\ UNCHANGED otherVars

\* time passes
ClockTick ==
  /\ ticks < MaxTicks
  /\ ticks' = ticks + 1
  /\ now' = now + TickSec
  /\ UNCHANGED serverVars
  /\ UNCHANGED clientVars
  /\ UNCHANGED otherVars

(***************************************************************************)
(* The client session: useSmartTTS over useNativeTTS.                      *)
(*                                                                         *)
(* A speak() call: pc is idle (not yet called), invoke (awaiting the       *)
(* text-to-speech response), audio (awaiting the promise of its Audio) or  *)
(* done (speak returned).  aud is the state of the Audio element the call  *)
(* created: none, loading (play() called), playing, stoppedL / stoppedP    *)
(* (paused with src cleared while loading / after it played), ended,       *)
(* failed.  ctl is its AbortController: none, live, aborted.  skipped: the  *)
(* call returned at "Empty text, skipping".                                *)
(***************************************************************************)
IdleCall == [pc |-> "idle", text |-> 1, req |-> 0, aud |-> "none", ctl |-> "none",
             premiumFailed |-> FALSE, web |-> FALSE, webFailed |-> FALSE,
             skipped |-> FALSE]

\* the client state one handler runs over, statement by statement
ClientState ==
  [calls |-> calls, audioRef |-> audioRef, abortControllerRef |-> abortControllerRef,
   isLoading |-> isLoading, isSpeaking |-> isSpeaking, error |-> error,
   native |-> native, usageInfo |-> usageInfo, clientAudioCache |-> clientAudioCache]

\* the effect "Sync with native TTS speaking state", run after a render in
\* which nativeTTS.isSpeaking changed
SyncEffect(st) ==
  IF st.native.isSpeaking = native.isSpeaking THEN st.isSpeaking
  ELSE IF st.native.isSpeaking THEN TRUE
  ELSE IF st.audioRef = None THEN FALSE
  ELSE st.isSpeaking

\* the handler's final state becomes the next state
Commit(st) ==
  /\ calls' = st.calls
  /\ audioRef' = st.audioRef
  /\ abortControllerRef' = st.abortControllerRef
  /\ isLoading' = st.isLoading
  /\ isSpeaking' = SyncEffect(st)
  /\ error' = st.error
  /\ native' = st.native
  /\ usageInfo' = st.usageInfo
  /\ clientAudioCache' = st.clientAudioCache

\* cleanupAudio: the Audio in audioRef is paused and its src cleared, the
\* controller in abortControllerRef is aborted, both refs become null
cleanupAudio(st) ==
  [st EXCEPT
     !.calls = [c \in CallIds |->
        LET a == IF st.audioRef = Some(c)
                   THEN [st.calls[c] EXCEPT !.aud =
                           IF @ = "loading" THEN "stoppedL"
                           ELSE IF @ \in {"playing", "ended"} THEN "stoppedP"
                           ELSE @]
                   ELSE st.calls[c]
        IN  IF st.abortControllerRef = Some(c) THEN [a EXCEPT !.ctl = "aborted"] ELSE a],
     !.audioRef = None,
     !.abortControllerRef = None]

\* useNativeTTS.stop: speechSynthesis.cancel() when the API exists, then
\* setIsSpeaking(false); the cancelled utterance still has its end/error event
\* to deliver
nativeStop(n) ==
  IF n.isSupported
    THEN [n EXCEPT !.isSpeaking = FALSE, !.utt = 0, !.stale = (n.stale \/ n.utt # 0)]
    ELSE [n EXCEPT !.isSpeaking = FALSE]

\* useNativeTTS.speak for the text of call c
nativeSpeak(n, c, text) ==
  IF ~n.isSupported THEN n
  ELSE IF NativeClean[text] = <<>> THEN n
  ELSE [n EXCEPT !.isSpeaking = TRUE, !.utt = c, !.stale = (n.stale \/ n.utt # 0)]

\* a stop that leaves the loading flag as it is
stopKeepsLoading(st) ==
  LET s1 == cleanupAudio(st)
  IN  [s1 EXCEPT !.native = nativeStop(s1.native), !.isSpeaking = FALSE]

\* useSmartTTS.stop
stop(st) ==
  LET s1 == cleanupAudio(st)
  IN  [s1 EXCEPT !.native = nativeStop(s1.native),
                 !.isSpeaking = FALSE, !.isLoading = FALSE]

\* nativeTTS.speak has no throwing statement outside its own try block
nativeSpeakThrows == FALSE

\* speakWeb for call c; ok is its return value
speakWeb(st, c) ==
  IF nativeSpeakThrows
    THEN [st EXCEPT !.calls[c].web = TRUE, !.calls[c].webFailed = TRUE]
    ELSE [st EXCEPT !.native = nativeSpeak(st.native, c, st.calls[c].text),
                    !.isSpeaking = TRUE, !.isLoading = FALSE,
                    !.calls[c].web = TRUE]

\* speak, from "if (!success)" to its end
finishSpeak(st, c, success) ==
  IF success
    THEN [st EXCEPT !.calls[c].pc = "done", !.calls[c].text = 1, !.calls[c].req = 0]
    ELSE [st EXCEPT !.calls[c].pc = "done", !.calls[c].text = 1, !.calls[c].req = 0,
                    !.isLoading = FALSE, !.error = "TTS failed"]

\* speak without the retry: a failed speakPremium ends the call
premiumFailedNoRetry(st, c) ==
  finishSpeak([st EXCEPT !.calls[c].premiumFailed = TRUE], c, FALSE)

\* speak after speakPremium returned false: "Premium failed, falling back"
premiumFailed(st, c) ==
  LET s1 == [st EXCEPT !.calls[c].premiumFailed = TRUE]
      s2 == speakWeb(s1, c)
  IN  finishSpeak(s2, c, ~s2.calls[c].webFailed)

\* speak after speakPremium returned true
premiumSucceeded(st, c) == finishSpeak(st, c, TRUE)

\* the routing without the branch of the basic plan: quota alone decides
RouteByQuotaOnly(sid, info, textLength) ==
  IF ~sid THEN [usePremium |-> FALSE, reason |-> "No student ID", mark |-> FALSE]
  ELSE IF info = None
    THEN [usePremium |-> FALSE, reason |-> "Loading subscription info", mark |-> FALSE]
  ELSE IF info.ttsRemaining >= textLength
    THEN [usePremium |-> TRUE, reason |-> "", mark |-> FALSE]
  ELSE [usePremium |-> FALSE, reason |-> "TTS limit reached - fallback to Web TTS",
        mark |-> TRUE]

\* speak, "Determine which TTS to use": usePremium, and whether the cached
\* status is marked "limit reached"
Route(sid, info, textLength) ==
  IF ~sid THEN [usePremium |-> FALSE, reason |-> "No student ID", mark |-> FALSE]
  ELSE IF info = None
    THEN [usePremium |-> FALSE, reason |-> "Loading subscription info", mark |-> FALSE]
  ELSE IF info.plan = "basic"
    THEN [usePremium |-> FALSE, reason |-> "Basic plan - Web TTS only", mark |-> FALSE]
  ELSE IF info.plan = "pro"
    THEN IF info.canUsePremium /\ info.ttsRemaining >= textLength
           THEN [usePremium |-> TRUE, reason |-> "", mark |-> FALSE]
           ELSE [usePremium |-> FALSE,
                 reason |-> IF info.ttsRemaining < textLength
                              THEN "TTS limit reached - fallback to Web TTS"
                              ELSE "Pro plan inactive or expired",
                 mark |-> info.ttsRemaining < textLength]
  ELSE [usePremium |-> FALSE, reason |-> "", mark |-> FALSE]

\* clientAudioCache.set after the size check of speakPremium
ClientCacheStore(cache, key) ==
  LET c1 == IF Len(cache) > ClientCacheMax THEN Tail(cache) ELSE cache
  IN  IF \E i \in 1..Len(c1) : c1[i] = key THEN c1 ELSE Append(c1, key)

ClientCacheHas(cache, key) == \E i \in 1..Len(cache) : cache[i] = key

\* new Audio(audioDataUrl); audioRef.current = audio; audio.play()
startAudio(st, c) ==
  [st EXCEPT !.audioRef = Some(c), !.calls[c].aud = "loading", !.calls[c].pc = "audio"]

\* the effect that calls fetchUsageInfo on mount has run
Mounted == studentId => fetch.n > 0

\* speak(options) up to its first await
Speak(c, text) ==
  /\ Mounted
  /\ calls[c].pc = "idle"
  /\ \A d \in CallIds : d < c => calls[d].pc # "idle"
  /\ LET st0 == [ClientState EXCEPT !.calls[c].text = text]
     IN  IF IsBlank[text]
           THEN /\ Commit([ClientState EXCEPT !.calls[c].pc = "done",
                                               !.calls[c].skipped = TRUE])
                /\ UNCHANGED reqs
         ELSE
           LET s1 == stop(st0)
               s2 == [s1 EXCEPT !.isLoading = TRUE, !.error = Null]
               route == Route(studentId, usageInfo, RawLen[text])
               s3 == IF route.mark
                       THEN [s2 EXCEPT !.usageInfo.canUsePremium = FALSE,
                                       !.usageInfo.usingPremium = FALSE]
                       ELSE s2
           IN  IF route.usePremium
                 THEN LET s4 == s3
                      IN  IF ClientCacheHas(s4.clientAudioCache, ClientKeyOf(text))
                            THEN /\ Commit(startAudio(s4, c))
                                 /\ UNCHANGED reqs
                            ELSE /\ FreeReqs # {}
                                 /\ Commit([s4 EXCEPT !.abortControllerRef = Some(c),
                                                      !.calls[c].ctl = "live",
                                                      !.calls[c].req = NextReq,
                                                      !.calls[c].pc = "invoke"])
                                 /\ reqs' = [reqs EXCEPT ![NextReq] =
                                               NewTtsReq(text, TRUE, c)]
                 ELSE /\ LET s4 == speakWeb(s3, c)
                         IN  Commit(finishSpeak(s4, c, ~s4.calls[c].webFailed))
                      /\ UNCHANGED reqs
  /\ UNCHANGED <<now, ticks, sub, audioCache, studentId, fetch>>
  /\ UNCHANGED otherVars

\* speakPremium after "await supabase.functions.invoke": the response of the
\* call's request has arrived
PremiumResponse(c) ==
  /\ calls[c].pc = "invoke"
  /\ reqs[calls[c].req].pc = "responded"
  /\ reqs[calls[c].req].owner = c
  /\ LET r    == calls[c].req
         resp == reqs[r].resp[1]
         st0  == ClientState
     IN  /\ reqs' = [reqs EXCEPT ![r] = DoneReq]
         /\ IF resp.kind # "audio"
              THEN Commit(premiumFailed(st0, c))
              ELSE LET s1 == IF resp.usageInfo # None
                               THEN [st0 EXCEPT
                                       !.usageInfo.ttsUsed = resp.usageInfo.ttsUsed,
                                       !.usageInfo.ttsRemaining = resp.usageInfo.ttsRemaining,
                                       !.usageInfo.canUsePremium = resp.usageInfo.canUsePremium]
                               ELSE st0
                       s2 == [s1 EXCEPT !.clientAudioCache =
                                ClientCacheStore(@, ClientKeyOf(calls[c].text))]
                   IN  Commit(startAudio(s2, c))
  /\ UNCHANGED <<now, ticks, sub, audioCache, studentId, fetch>>
  /\ UNCHANGED otherVars

\* the invoke fails on the client side: the request never reaches the function
NetworkError(c) ==
  /\ calls[c].pc = "invoke"
  /\ reqs[calls[c].req].owner = c
  /\ reqs[calls[c].req].pc = "sent"
  /\ reqs' = [reqs EXCEPT ![calls[c].req] = DoneReq]
  /\ Commit(premiumFailed(ClientState, c))
  /\ UNCHANGED <<now, ticks, sub, audioCache, studentId, fetch>>
  /\ UNCHANGED otherVars

\* audio.onplay
AudioPlay(c) ==
  /\ calls[c].aud = "loading"
  /\ Commit([ClientState EXCEPT !.calls[c].aud = "playing",
                                !.isSpeaking = TRUE, !.isLoading = FALSE])
  /\ UNCHANGED <<now, ticks, studentId, fetch>>
  /\ UNCHANGED serverVars
  /\ UNCHANGED otherVars

\* audio.play() rejects (the play was refused, or pause() interrupted it):
\* .catch(() => resolve(false))
AudioPlayReject(c) ==
  /\ calls[c].aud \in {"loading", "stoppedL"}
  /\ calls[c].pc = "audio"
  /\ Commit(premiumFailed([ClientState EXCEPT !.calls[c].aud = "failed"], c))
  /\ UNCHANGED <<now, ticks, studentId, fetch>>
  /\ UNCHANGED serverVars
  /\ UNCHANGED otherVars

\* audio.onended
AudioEnded(c) ==
  /\ calls[c].aud = "playing"
  /\ LET s1 == [ClientState EXCEPT !.calls[c].aud = "ended", !.isSpeaking = FALSE]
         s2 == cleanupAudio(s1)
     IN  Commit(IF calls[c].pc = "audio" THEN premiumSucceeded(s2, c) ELSE s2)
  /\ UNCHANGED <<now, ticks, studentId, fetch>>
  /\ UNCHANGED serverVars
  /\ UNCHANGED otherVars

\* audio.onerror: a decoding error, or the error the element reports after
\* its src was set to the empty string
AudioError(c) ==
  /\ calls[c].aud \in {"loading", "playing", "stoppedL", "stoppedP"}
  /\ LET s1 == [ClientState EXCEPT !.calls[c].aud = "failed",
                                   !.isSpeaking = FALSE, !.isLoading = FALSE]
         s2 == cleanupAudio(s1)
     IN  Commit(IF calls[c].pc = "audio" THEN premiumFailed(s2, c) ELSE s2)
  /\ UNCHANGED <<now, ticks, studentId, fetch>>
  /\ UNCHANGED serverVars
  /\ UNCHANGED otherVars

\* utterance.onend / utterance.onerror of the utterance being spoken
NativeEnd ==
  /\ native.utt # 0
  /\ Commit([ClientState EXCEPT !.native.utt = 0, !.native.isSpeaking = FALSE])
  /\ UNCHANGED <<now, ticks, studentId, fetch>>
  /\ UNCHANGED serverVars
  /\ UNCHANGED otherVars

\* the end/error event of an utterance that speechSynthesis.cancel() removed
NativeCancelled ==
  /\ native.stale
  /\ Commit([ClientState EXCEPT !.native.stale = FALSE, !.native.isSpeaking = FALSE])
  /\ UNCHANGED <<now, ticks, studentId, fetch>>
  /\ UNCHANGED serverVars
  /\ UNCHANGED otherVars

\* the user calls stop()
Stop ==
  /\ Mounted
  /\ Commit(stop(ClientState))
  /\ UNCHANGED <<now, ticks, studentId, fetch>>
  /\ UNCHANGED serverVars
  /\ UNCHANGED otherVars

(***************************************************************************)
(* Plan resolution: get_subscription and fetchUsageInfo.                   *)
(***************************************************************************)
\* get_subscription: subscription || { plan: 'basic', tts_used: 0, tts_limit: 150000 }
DefaultSubscription == [plan |-> "basic", tts_used |-> 0, tts_limit |-> DefaultLimit]

get_subscription(s) == IF s = None THEN DefaultSubscription ELSE s

Max(a, b) == IF a >= b THEN a ELSE b

\* fetchUsageInfo, from the subscription of the response to the usageInfo it sets
usageFromSubscription(s, t) ==
  LET plan     == s.plan
      ttsUsed  == s.tts_used
      ttsLimit == IF s.tts_limit = 0 THEN DefaultLimit ELSE s.tts_limit
      isActive == IF "is_active" \in DOMAIN s THEN s.is_active ELSE TRUE
      isExpired == /\ "end_date" \in DOMAIN s
                   /\ s.end_date # None
                   /\ s.end_date[1] < t
      canUsePremium == plan = "pro" /\ isActive /\ ~isExpired /\ ttsUsed < ttsLimit
  IN  [plan |-> plan, ttsUsed |-> ttsUsed, ttsLimit |-> ttsLimit,
       ttsRemaining |-> Max(0, ttsLimit - ttsUsed),
       canUsePremium |-> canUsePremium, usingPremium |-> canUsePremium]

\* the usageInfo set when the fetch reports an error
BasicDefault ==
  [plan |-> "basic", ttsUsed |-> 0, ttsLimit |-> DefaultLimit,
   ttsRemaining |-> DefaultLimit, canUsePremium |-> FALSE, usingPremium |-> FALSE]

FetchOutcomes == {"ok", "error", "throw"}

\* fetchUsageInfo: get_subscription is invoked and reads the row
FetchSend(outcome) ==
  /\ studentId
  /\ fetch.resp = None
  /\ fetch.n < MaxFetches
  /\ fetch' = [n |-> fetch.n + 1,
               resp |-> Some([kind |-> outcome,
                              subscription |-> IF outcome = "ok"
                                                 THEN get_subscription(sub)
                                                 ELSE None])]
  /\ UNCHANGED <<now, ticks, studentId, usageInfo, isLoading, isSpeaking, error,
                 audioRef, abortControllerRef, clientAudioCache, calls, native>>
  /\ UNCHANGED serverVars
  /\ UNCHANGED otherVars

\* fetchUsageInfo after its await
FetchReceive ==
  /\ fetch.resp # None
  /\ fetch' = [fetch EXCEPT !.resp = None]
  /\ usageInfo' =
       LET resp == fetch.resp[1]
       IN  IF resp.kind = "error" THEN BasicDefault
           ELSE IF resp.kind = "throw" THEN usageInfo
           ELSE usageFromSubscription(resp.subscription, now)
  /\ UNCHANGED <<now, ticks, studentId, isLoading, isSpeaking, error,
                 audioRef, abortControllerRef, clientAudioCache, calls, native>>
  /\ UNCHANGED serverVars
  /\ UNCHANGED otherVars

(***************************************************************************)
(* manage-subscription invocations and the useSubscription hook.           *)
(***************************************************************************)
\* an invocation slot not yet used
IdleOp == [pc |-> "idle", action |-> "none", target |-> 0, auth |-> "ok",
           afterBlock |-> FALSE, resp |-> 0]

\* useSubscription before its first fetch: subscription and pendingRequest
\* null, loading true, error null
IdleView == [subscription |-> None, pendingRequest |-> None, loading |-> TRUE,
             error |-> Null, resp |-> None, n |-> 0]

\* refreshUsageInfo / refreshSubscription calls of the session
MaxRefreshes == 1

\* refreshUsageInfo: fetchUsageInfo is called again after the mount
RefreshUsageInfo(outcome) ==
  /\ studentId
  /\ fetch.resp = None
  /\ fetch.n >= 1
  /\ fetch.n < MaxFetches + MaxRefreshes
  /\ fetch' = [n |-> fetch.n + 1,
               resp |-> Some([kind |-> outcome,
                              subscription |-> IF outcome = "ok"
                                                 THEN get_subscription(sub)
                                                 ELSE None])]
  /\ UNCHANGED <<now, ticks, studentId, usageInfo, isLoading, isSpeaking, error,
                 audioRef, abortControllerRef, clientAudioCache, calls, native>>
  /\ UNCHANGED serverVars
  /\ UNCHANGED otherVars

\* get_subscription: the newest row of upgrade_requests, or null
LatestRequest(rows) == IF rows = <<>> THEN None ELSE Some(rows[Len(rows)])

\* useSubscription.fetchSubscription: get_subscription is invoked and reads
\* the two tables
FetchSubscription(outcome) ==
  /\ studentId
  /\ view.resp = None
  /\ view.n < MaxFetches + MaxRefreshes
  /\ view' = [view EXCEPT
       !.n = @ + 1,
       !.loading = TRUE,
       !.resp = Some([kind |-> outcome,
                      subscription |-> IF outcome = "ok" THEN get_subscription(sub)
                                       ELSE None,
                      pendingRequest |-> IF outcome = "ok"
                                           THEN LatestRequest(upgrade_requests)
                                           ELSE None])]
  /\ UNCHANGED <<now, ticks, upgrade_requests, ops, probe>>
  /\ UNCHANGED serverVars
  /\ UNCHANGED clientVars

\* useSubscription.fetchSubscription after its await
SubscriptionReceive ==
  /\ view.resp # None
  /\ view' = IF view.resp[1].kind = "ok"
               THEN [view EXCEPT !.subscription = Some(view.resp[1].subscription),
                                 !.pendingRequest = view.resp[1].pendingRequest,
                                 !.error = Null, !.loading = FALSE, !.resp = None]
               ELSE [view EXCEPT !.error = "Failed to load subscription",
                                 !.loading = FALSE, !.resp = None]
  /\ UNCHANGED <<now, ticks, upgrade_requests, ops, probe>>
  /\ UNCHANGED serverVars
  /\ UNCHANGED clientVars

\* useSubscription.canUsePremiumTTS at time t; a comparison with a missing
\* (undefined) field is false
canUsePremiumTTS(subscription, t) ==
  IF subscription = None THEN FALSE
  ELSE LET s == subscription[1]
       IN  IF s.plan # "pro" THEN FALSE
           ELSE IF ~("is_active" \in DOMAIN s /\ s.is_active) THEN FALSE
           ELSE IF "end_date" \in DOMAIN s /\ s.end_date # None /\ s.end_date[1] < t
             THEN FALSE
           ELSE IF s.tts_used >= s.tts_limit THEN FALSE
           ELSE TRUE

\* a component calls canUsePremiumTTS()
CanUsePremiumTTS ==
  /\ ~view.loading
  /\ probe' = Some([fn |-> "canUsePremiumTTS", at |-> now,
                    subscription |-> view.subscription,
                    value |-> canUsePremiumTTS(view.subscription, now)])
  /\ UNCHANGED <<now, ticks, upgrade_requests, ops, view>>
  /\ UNCHANGED serverVars
  /\ UNCHANGED clientVars

(***************************************************************************)
(* manage-subscription: request_upgrade and the school's actions.  An      *)
(* invocation: pc is idle, sent, one of the handler's later awaits (plan,  *)
(* insert, upd_req, upd_sub) or done; target is the requestId (the index   *)
(* of the row in upgrade_requests); auth is what validateSchoolSession and *)
(* the students lookup will find: ok, invalid (no valid session of that    *)
(* school), foreign (the student belongs to another school); resp is the   *)
(* HTTP status of the response; afterBlock records that a block_student    *)
(* had completed when the invocation was made.                             *)
(***************************************************************************)
\* endDate.setDate(endDate.getDate() + 30)
ThirtyDays == 30 * 24 * 60 * 60

OpActions == {"request_upgrade", "approve_request", "reject_request",
              "block_student", "cancel_pro", "check_expiry"}

AuthOutcomes == {"ok", "invalid", "foreign"}

\* request ids a school sends
Targets == {1, 2}

FreeOps == {o \in OpIds : ops[o].pc = "idle"}

NextOp == CHOOSE o \in FreeOps : \A q \in FreeOps : o <= q

\* a block_student invocation has returned success
BlockCompleted == \E o \in OpIds : /\ ops[o].action = "block_student"
                                   /\ ops[o].pc = "done"
                                   /\ ops[o].resp = 200

\* a row of upgrade_requests as the insert of request_upgrade creates it
PendingRow == [status |-> "pending", processed_at |-> None]

HasPending(rows) == \E i \in 1..Len(rows) : rows[i].status = "pending"

\* the function is invoked
OpInvoke(action, target, auth) ==
  /\ FreeOps # {}
  /\ action \in {"approve_request", "reject_request"} \/ target = 0
  /\ action \in {"approve_request", "reject_request"} => target # 0
  /\ action \in {"request_upgrade", "check_expiry"} => auth = "ok"
  /\ ops' = [ops EXCEPT ![NextOp] =
       [pc |-> "sent", action |-> action, target |-> target, auth |-> auth,
        afterBlock |-> BlockCompleted, resp |-> 0]]
  /\ UNCHANGED <<now, ticks, upgrade_requests, view, probe>>
  /\ UNCHANGED serverVars
  /\ UNCHANGED clientVars

\* the response leaves with this status
OpDone(o, status) == [ops EXCEPT ![o].pc = "done", ![o].resp = status]

\* request_upgrade: "Check if student already has a pending request"
RequestUpgradeCheck(o) ==
  /\ ops[o].pc = "sent" /\ ops[o].action = "request_upgrade"
  /\ ops' = IF HasPending(upgrade_requests) THEN OpDone(o, 400)
            ELSE [ops EXCEPT ![o].pc = "plan"]
  /\ UNCHANGED <<now, ticks, upgrade_requests, view, probe>>
  /\ UNCHANGED serverVars
  /\ UNCHANGED clientVars

\* request_upgrade: "Check current subscription"
RequestUpgradePlan(o) ==
  /\ ops[o].pc = "plan"
  /\ ops' = IF sub # None /\ sub.plan = "pro" THEN OpDone(o, 400)
            ELSE [ops EXCEPT ![o].pc = "insert"]
  /\ UNCHANGED <<now, ticks, upgrade_requests, view, probe>>
  /\ UNCHANGED serverVars
  /\ UNCHANGED clientVars

\* request_upgrade: "Create upgrade request"
RequestUpgradeInsert(o) ==
  /\ ops[o].pc = "insert"
  /\ upgrade_requests' = Append(upgrade_requests, PendingRow)
  /\ ops' = OpDone(o, 200)
  /\ UNCHANGED <<now, ticks, view, probe>>
  /\ UNCHANGED serverVars
  /\ UNCHANGED clientVars

\* approve_request up to its first update: the session is validated, the
\* request is read and the student's school compared
ApproveRead(o) ==
  /\ ops[o].pc = "sent" /\ ops[o].action = "approve_request"
  /\ ops' =
       IF ops[o].auth = "invalid" THEN OpDone(o, 401)
       ELSE IF \/ ops[o].target > Len(upgrade_requests)
               \/ upgrade_requests[ops[o].target].status # "pending"
         THEN OpDone(o, 404)
       ELSE IF ops[o].auth = "foreign" THEN OpDone(o, 403)
       ELSE [ops EXCEPT ![o].pc = "upd_req"]
  /\ UNCHANGED <<now, ticks, upgrade_requests, view, probe>>
  /\ UNCHANGED serverVars
  /\ UNCHANGED clientVars

\* approve_request: "Update request status", .eq('id', body.requestId)
ApproveUpdateRequest(o) ==
  /\ ops[o].pc = "upd_req" /\ ops[o].action = "approve_request"
  /\ upgrade_requests' = [upgrade_requests EXCEPT ![ops[o].target] =
                            [status |-> "approved", processed_at |-> Some(now)]]
  /\ ops' = [ops EXCEPT ![o].pc = "upd_sub"]
  /\ UNCHANGED <<now, ticks, view, probe>>
  /\ UNCHANGED serverVars
  /\ UNCHANGED clientVars

\* approve_request: "Activate Pro plan for 30 days"; the update changes the
\* rows that match the student, none when the student has no row
ApproveUpdateSub(o) ==
  /\ ops[o].pc = "upd_sub" /\ ops[o].action = "approve_request"
  /\ sub' = IF sub = None THEN None
            ELSE [sub EXCEPT !.plan = "pro", !.end_date = Some(now + ThirtyDays),
                             !.tts_used = 0, !.is_active = TRUE]
  /\ ops' = OpDone(o, 200)
  /\ UNCHANGED <<now, ticks, audioCache, reqs, upgrade_requests, view, probe>>
  /\ UNCHANGED clientVars

\* block_student up to and with "Mark any pending requests as blocked"
BlockUpdateRequests(o) ==
  /\ ops[o].pc = "sent" /\ ops[o].action = "block_student"
  /\ IF ops[o].auth = "invalid"
       THEN ops' = OpDone(o, 401) /\ UNCHANGED upgrade_requests
     ELSE IF ops[o].auth = "foreign"
       THEN ops' = OpDone(o, 404) /\ UNCHANGED upgrade_requests
     ELSE /\ upgrade_requests' =
               [i \in 1..Len(upgrade_requests) |->
                  IF upgrade_requests[i].status = "pending"
                    THEN [status |-> "blocked", processed_at |-> Some(now)]
                    ELSE upgrade_requests[i]]
          /\ ops' = [ops EXCEPT ![o].pc = "upd_sub"]
  /\ UNCHANGED <<now, ticks, view, probe>>
  /\ UNCHANGED serverVars
  /\ UNCHANGED clientVars

\* a downgrade that deactivates the subscription and clears its usage
DowngradeDeactivates(s) ==
  IF s = None THEN None
  ELSE [s EXCEPT !.plan = "basic", !.end_date = None, !.is_active = FALSE,
                 !.tts_used = 0]

\* the update of block_student, cancel_pro and check_expiry
Downgrade(s) ==
  IF s = None THEN None
  ELSE [s EXCEPT !.plan = "basic", !.end_date = None, !.is_active = TRUE]

\* block_student: "Downgrade to basic immediately"
BlockUpdateSub(o) ==
  /\ ops[o].pc = "upd_sub" /\ ops[o].action = "block_student"
  /\ sub' = Downgrade(sub)
  /\ ops' = OpDone(o, 200)
  /\ UNCHANGED <<now, ticks, audioCache, reqs, upgrade_requests, view, probe>>
  /\ UNCHANGED clientVars

\* cancel_pro
CancelPro(o) ==
  /\ ops[o].pc = "sent" /\ ops[o].action = "cancel_pro"
  /\ IF ops[o].auth = "invalid"
       THEN ops' = OpDone(o, 401) /\ UNCHANGED sub
     ELSE IF ops[o].auth = "foreign"
       THEN ops' = OpDone(o, 404) /\ UNCHANGED sub
     ELSE sub' = Downgrade(sub) /\ ops' = OpDone(o, 200)
  /\ UNCHANGED <<now, ticks, audioCache, reqs, upgrade_requests, view, probe>>
  /\ UNCHANGED clientVars

\* reject_request up to its update: the session is validated, the request
\* is read and the student's school compared
RejectRead(o) ==
  /\ ops[o].pc = "sent" /\ ops[o].action = "reject_request"
  /\ ops' =
       IF ops[o].auth = "invalid" THEN OpDone(o, 401)
       ELSE IF \/ ops[o].target > Len(upgrade_requests)
               \/ upgrade_requests[ops[o].target].status # "pending"
         THEN OpDone(o, 404)
       ELSE IF ops[o].auth = "foreign" THEN OpDone(o, 403)
       ELSE [ops EXCEPT ![o].pc = "upd_req"]
  /\ UNCHANGED <<now, ticks, upgrade_requests, view, probe>>
  /\ UNCHANGED serverVars
  /\ UNCHANGED clientVars

\* reject_request: the update .eq('id', body.requestId)
RejectUpdate(o) ==
  /\ ops[o].pc = "upd_req" /\ ops[o].action = "reject_request"
  /\ upgrade_requests' = [upgrade_requests EXCEPT ![ops[o].target] =
                            [status |-> "rejected", processed_at |-> Some(now)]]
  /\ ops' = OpDone(o, 200)
  /\ UNCHANGED <<now, ticks, view, probe>>
  /\ UNCHANGED serverVars
  /\ UNCHANGED clientVars

\* .eq('plan', 'pro').lt('end_date', now): a null end date is less than nothing
SelectedAsExpired(s, t) ==
  s # None /\ s.plan = "pro" /\ s.end_date # None /\ s.end_date[1] < t

\* check_expiry: the expired subscriptions are selected
ExpiryRead(o) ==
  /\ ops[o].pc = "sent" /\ ops[o].action = "check_expiry"
  /\ ops' = IF SelectedAsExpired(sub, now) THEN [ops EXCEPT ![o].pc = "upd_sub"]
            ELSE OpDone(o, 200)
  /\ UNCHANGED <<now, ticks, upgrade_requests, view, probe>>
  /\ UNCHANGED serverVars
  /\ UNCHANGED clientVars

\* check_expiry: the update .in('id', expiredSubs.map(s => s.id))
ExpiryUpdate(o) ==
  /\ ops[o].pc = "upd_sub" /\ ops[o].action = "check_expiry"
  /\ sub' = Downgrade(sub)
  /\ ops' = OpDone(o, 200)
  /\ UNCHANGED <<now, ticks, audioCache, reqs, upgrade_requests, view, probe>>
  /\ UNCHANGED clientVars

(***************************************************************************)
(* The system.                                                             *)
(***************************************************************************)
\* end dates of the initial rows: none, one the clock passes, one it does not
InitEndDates == {None, Some(TickSec - 1), Some(ThirtyDays)}

\* tts_used of the initial rows
InitUsed == {0, 149995}

InitSubs ==
  {None}
  \cup {[plan |-> "basic", is_active |-> TRUE, end_date |-> None,
         tts_used |-> u, tts_limit |-> DefaultLimit] : u \in InitUsed}
  \cup {[plan |-> "pro", is_active |-> TRUE, end_date |-> e,
         tts_used |-> u, tts_limit |-> DefaultLimit] :
          e \in InitEndDates, u \in InitUsed}
  \cup {[plan |-> "pro", is_active |-> FALSE, end_date |-> Some(ThirtyDays),
         tts_used |-> 0, tts_limit |-> DefaultLimit]}

Init ==
  /\ now = 0
  /\ ticks = 0
  /\ sub \in InitSubs
  /\ audioCache = <<>>
  /\ reqs = [r \in ReqIds |-> IdleReq]
  /\ studentId \in BOOLEAN
  /\ usageInfo = None
  /\ fetch = [n |-> 0, resp |-> None]
  /\ isLoading = FALSE
  /\ isSpeaking = FALSE
  /\ error = Null
  /\ audioRef = None
  /\ abortControllerRef = None
  /\ clientAudioCache = <<>>
  /\ calls = [c \in CallIds |-> IdleCall]
  /\ native \in {[isSupported |-> b, isSpeaking |-> FALSE, utt |-> 0, stale |-> FALSE] :
                   b \in BOOLEAN}
  /\ upgrade_requests = <<>>
  /\ ops = [o \in OpIds |-> IdleOp]
  /\ view = IdleView
  /\ probe = None

(***************************************************************************)
(* The ledger alone: the edge functions and the store, called by any       *)
(* number of devices; no client session is modelled.                       *)
(***************************************************************************)
InitLedger ==
  /\ Init
  /\ studentId = FALSE
  /\ native.isSupported = FALSE

NextLedger ==
  \/ \E r \in ReqIds : TtsReceive(r)
  \/ \E r \in ReqIds : TtsWrite(r)
  \/ \E r \in ReqIds, o \in VendorOutcomes : VendorReply(r, o)
  \/ \E r \in ReqIds : IncReceive(r)
  \/ \E r \in ReqIds : IncWrite(r)
  \/ \E n \in IncChars : IncInvoke(n)
  \/ \E t \in OtherTexts, sid \in BOOLEAN : OtherInvoke(t, sid)
  \/ \E r \in ReqIds : OtherReceive(r)
  \/ ClockTick

SpecLedger == InitLedger /\ [][NextLedger]_vars

(***************************************************************************)
(* One client session and the functions that serve it: the student has no  *)
(* second device.                                                          *)
(***************************************************************************)
NextClient ==
  \/ \E o \in FetchOutcomes : FetchSend(o)
  \/ FetchReceive
  \/ \E c \in CallIds, t \in TextIds : Speak(c, t)
  \/ \E c \in CallIds : PremiumResponse(c)
  \/ \E c \in CallIds : NetworkError(c)
  \/ \E c \in CallIds : AudioPlay(c)
  \/ \E c \in CallIds : AudioPlayReject(c)
  \/ \E c \in CallIds : AudioEnded(c)
  \/ \E c \in CallIds : AudioError(c)
  \/ NativeEnd
  \/ NativeCancelled
  \/ Stop
  \/ \E r \in ReqIds : TtsReceive(r)
  \/ \E r \in ReqIds : TtsWrite(r)
  \/ \E r \in ReqIds, o \in VendorOutcomes : VendorReply(r, o)
  \/ ClockTick

SpecClient == Init /\ [][NextClient]_vars

(***************************************************************************)
(* Properties of the usage ledger.                                         *)
(***************************************************************************)
\* a call of the check-and-reserve was granted and its update is outstanding
GrantPending(r) ==
  /\ reqs[r].pc = "write"
  /\ reqs[r].chk # None
  /\ reqs[r].chk[1].canUse

\* C1: two concurrent calls of the usage check-and-reserve for one student
\* are never both granted when only one of them fits the remaining quota:
\* whenever two granted calls have their updates outstanding, the stored
\* usage plus both lengths is within the limit.
C1_NeverBothGrantedWhenOneFits ==
  \A r1, r2 \in ReqIds :
    (r1 # r2 /\ GrantPending(r1) /\ GrantPending(r2))
      => sub.tts_used + reqs[r1].n + reqs[r2].n <= sub.tts_limit

\* the row the call of request r read had this usage
UsedBefore(r) == reqs[r].chk[1].newUsed[1] - reqs[r].n

\* C4: when the vendor call of a request fails (401, 429, another status, no
\* audio data), the stored tts_used is what it was before the request.
C4_VendorFailureLeavesUsage ==
  \A r \in ReqIds :
    (/\ reqs[r].pc = "responded"
     /\ reqs[r].resp[1].kind = "error"
     /\ reqs[r].chk # None)
      => sub.tts_used = UsedBefore(r)

\* C5: a denial of the check-and-reserve never partially applies: the step in
\* which checkAndTrackUsage or increment_tts decides "not granted" leaves the
\* stored row as it was and ends the call's dealings with the store (the
\* response leaves at once, no update is outstanding).
C5_DenialLeavesUsage ==
  [][\A r \in ReqIds :
       (/\ reqs[r].pc = "sent"
        /\ reqs'[r].chk # None
        /\ ~reqs'[r].chk[1].canUse)
         => /\ sub' = sub
            /\ reqs'[r].pc = "responded"]_vars

\* C5 happens: used 149,995 + 10 > limit 150,000 was denied and the stored
\* usage is 149,995
C5_DeniedOverQuota ==
  \E r \in ReqIds :
    /\ reqs[r].pc = "responded"
    /\ reqs[r].chk # None
    /\ reqs[r].chk[1].reason = "TTS limit reached"
    /\ reqs[r].n = 10
    /\ sub.tts_used = 149995
    /\ sub.tts_limit = 150000

\* the condition under which the check-and-reserve is to grant n characters
Eligible(s, n, t) ==
  /\ s # None
  /\ s.plan = "pro"
  /\ s.is_active
  /\ ~(s.end_date # None /\ s.end_date[1] < t)
  /\ s.tts_used + n <= s.tts_limit

C8_AudioOnlyIfAccounted ==
  \A r \in ReqIds :
    (reqs[r].pc = "responded" /\ reqs[r].resp[1].kind = "audio")
      => (reqs[r].chk # None /\ reqs[r].chk[1].canUse)

(***************************************************************************)
(* Properties of the client session.                                       *)
(***************************************************************************)
\* this step is call c entering speak()
SpeakStep(c) == calls[c].pc = "idle" /\ calls'[c].pc # "idle"

\* the cached plan is basic
CachedBasic == usageInfo # None /\ usageInfo.plan = "basic"

\* C2: with a cached plan of basic, speak() of a text that is not blank never
\* invokes the text-to-speech function, whatever the text length: it creates
\* no invocation and no premium Audio, it calls speakWeb, and the stored row
\* is unchanged.  A blank text returns before either backend.
C2_BasicNeverPremium ==
  [][\A c \in CallIds :
       (SpeakStep(c) /\ CachedBasic)
         => /\ reqs' = reqs
            /\ sub' = sub
            /\ calls'[c].pc = "done"
            /\ calls'[c].aud = "none"
            /\ calls'[c].web \/ calls'[c].skipped]_vars

\* C2 as stated: with a cached plan of basic every speak(), whatever its
\* text, invokes the Fallback backend and no Premium backend, and the stored
\* row is unchanged.
C2_BasicAlwaysFallback ==
  [][\A c \in CallIds :
       (SpeakStep(c) /\ CachedBasic)
         => /\ reqs' = reqs
            /\ sub' = sub
            /\ calls'[c].web]_vars

\* C2 happens: on a basic plan a call went to Web TTS, its utterance is
\* spoken and no invocation of a function was ever made
C2_BasicSpokeWeb ==
  /\ CachedBasic
  /\ \E c \in CallIds :
       /\ calls[c].pc = "done"
       /\ calls[c].web
       /\ ~calls[c].premiumFailed
       /\ native.utt = c
  /\ \A r \in ReqIds : reqs[r].pc = "idle"

\* C3: a speak(T) whose Premium synthesis succeeds increases the stored
\* tts_used by exactly the length of sanitize(T): when the audio response of
\* a call's request leaves, the stored usage is the usage its check read
\* plus Len(sanitizeText(T)).
C3_ChargedSanitizedLength ==
  \A r \in ReqIds :
    (/\ reqs[r].pc = "responded"
     /\ reqs[r].owner # 0
     /\ reqs[r].resp[1].kind = "audio"
     /\ reqs[r].chk # None)
      => sub.tts_used = UsedBefore(r) + JsLength(CleanText[reqs[r].text])

\* C7: when speakPremium fails, speak() calls speakWeb for the same call and
\* text, and the error 'TTS failed' is set only if speakWeb failed too.
C7_PremiumFailureRetried ==
  /\ [](error = "TTS failed" => \E c \in CallIds : calls[c].webFailed)
  /\ [][\A c \in CallIds :
          (~calls[c].premiumFailed /\ calls'[c].premiumFailed)
            => /\ calls'[c].web
               /\ error' = "TTS failed" => calls'[c].webFailed
               /\ (native.isSupported /\ NativeClean[calls[c].text] # <<>>)
                    => (native'.utt = c /\ native'.isSpeaking)]_vars

\* C7 happens: a call's Premium attempt failed, Web TTS speaks its utterance
\* and no error is shown
C7_FellBackToWeb ==
  \E c \in CallIds :
    /\ calls[c].pc = "done"
    /\ calls[c].premiumFailed
    /\ calls[c].web
    /\ native.utt = c
    /\ error = Null

\* C9: the stored usage is not incremented for a cancelled request: the
\* ledger update of a request whose call was aborted (by stop() or a newer
\* speak()) before the update does not change the row.
C9_CancelledNotBilled ==
  [][\A r \in ReqIds :
       (/\ reqs[r].pc = "write"
        /\ reqs'[r].pc # "write"
        /\ reqs[r].owner # 0
        /\ calls[reqs[r].owner].ctl = "aborted")
         => sub' = sub]_vars

\* utterances that are sounding: Audio elements playing, and the utterance
\* of speechSynthesis
ActiveUtterances ==
  Cardinality({c \in CallIds : calls[c].aud = "playing"})
    + (IF native.utt # 0 THEN 1 ELSE 0)

\* C10: at most one utterance is active per client at any time, and an Audio
\* element that plays is the one audioRef holds.
C10_AtMostOneActive ==
  /\ ActiveUtterances <= 1
  /\ \A c \in CallIds : calls[c].aud = "playing" => audioRef = Some(c)

(***************************************************************************)
(* Plan resolution alone: fetchUsageInfo, its refresh, and useSubscription *)
(* over a store whose row does not change.                                 *)
(***************************************************************************)
\* end dates of the rows: those of Init and the instant the clock reaches
ResolveEndDates == InitEndDates \cup {Some(TickSec)}

ResolveSubs ==
  InitSubs
  \cup {[plan |-> "pro", is_active |-> TRUE, end_date |-> e,
         tts_used |-> u, tts_limit |-> DefaultLimit] :
          e \in ResolveEndDates, u \in InitUsed \cup {DefaultLimit}}

InitResolve ==
  /\ now = 0
  /\ ticks = 0
  /\ sub \in ResolveSubs
  /\ audioCache = <<>>
  /\ reqs = [r \in ReqIds |-> IdleReq]
  /\ studentId = TRUE
  /\ usageInfo = None
  /\ fetch = [n |-> 0, resp |-> None]
  /\ isLoading = FALSE
  /\ isSpeaking = FALSE
  /\ error = Null
  /\ audioRef = None
  /\ abortControllerRef = None
  /\ clientAudioCache = <<>>
  /\ calls = [c \in CallIds |-> IdleCall]
  /\ native = [isSupported |-> FALSE, isSpeaking |-> FALSE, utt |-> 0, stale |-> FALSE]
  /\ upgrade_requests = <<>>
  /\ ops = [o \in OpIds |-> IdleOp]
  /\ view = IdleView
  /\ probe = None

NextResolve ==
  \/ \E o \in FetchOutcomes : FetchSend(o)
  \/ FetchReceive
  \/ \E o \in FetchOutcomes : RefreshUsageInfo(o)
  \/ \E o \in FetchOutcomes : FetchSubscription(o)
  \/ SubscriptionReceive
  \/ CanUsePremiumTTS
  \/ ClockTick

SpecResolve == InitResolve /\ [][NextResolve]_vars

\* the entitlement as the contract computes it from a record at time t
PremiumEntitled(s, t) ==
  /\ s.plan = "pro"
  /\ s.is_active
  /\ s.end_date = None \/ s.end_date[1] > t
  /\ s.tts_used < s.tts_limit

\* C11: canUsePremium as the client resolves it (fetchUsageInfo when its
\* response arrives, canUsePremiumTTS when it is called) is true iff the
\* record is pro, active, has no end date or one later than now, and
\* ttsUsed < ttsLimit.
C11_CanUsePremiumIff ==
  /\ [](probe # None =>
          (probe[1].value <=>
             (probe[1].subscription # None
              /\ PremiumEntitled(probe[1].subscription[1], probe[1].at))))
  /\ [][(fetch.resp # None /\ fetch'.resp = None /\ fetch.resp[1].kind = "ok")
          => (usageInfo'.canUsePremium <=>
                PremiumEntitled(fetch.resp[1].subscription, now))]_vars

\* C12: after any failure of the subscription fetch (error result or thrown
\* exception, first load or refresh) the plan status held by useSmartTTS is
\* plan basic with canUsePremium false.
C12_FetchFailsClosed ==
  [][(fetch.resp # None /\ fetch'.resp = None /\ fetch.resp[1].kind # "ok")
       => /\ usageInfo' # None
          /\ usageInfo'.plan = "basic"
          /\ ~usageInfo'.canUsePremium]_vars

(***************************************************************************)
(* The school's actions against the ledger: a student with or without a    *)
(* subscription row, with or without an upgrade request, served by         *)
(* concurrent invocations of both functions.                               *)
(***************************************************************************)
AdminSubs ==
  {None}
  \cup {[plan |-> "basic", is_active |-> TRUE, end_date |-> None,
         tts_used |-> u, tts_limit |-> DefaultLimit] : u \in InitUsed}
  \cup {[plan |-> "pro", is_active |-> TRUE, end_date |-> e,
         tts_used |-> 0, tts_limit |-> DefaultLimit] :
          e \in {Some(TickSec - 1), Some(ThirtyDays)}}

\* the requests on file: a Pro student has an approved one, and may have a
\* pending one that was inserted between the two updates of the approval;
\* others may have a pending one
AdminRequests(s) ==
  IF s # None /\ s.plan = "pro"
    THEN {<<[status |-> "approved", processed_at |-> Some(0)]>>}
         \cup IF s.end_date = Some(ThirtyDays) THEN {}
              ELSE {<<[status |-> "approved", processed_at |-> Some(0)], PendingRow>>}
    ELSE {<<>>, <<PendingRow>>}

InitAdmin ==
  /\ now = 0
  /\ ticks = 0
  /\ sub \in AdminSubs
  /\ upgrade_requests \in AdminRequests(sub)
  /\ audioCache = <<>>
  /\ reqs = [r \in ReqIds |-> IdleReq]
  /\ studentId = FALSE
  /\ usageInfo = None
  /\ fetch = [n |-> 0, resp |-> None]
  /\ isLoading = FALSE
  /\ isSpeaking = FALSE
  /\ error = Null
  /\ audioRef = None
  /\ abortControllerRef = None
  /\ clientAudioCache = <<>>
  /\ calls = [c \in CallIds |-> IdleCall]
  /\ native = [isSupported |-> FALSE, isSpeaking |-> FALSE, utt |-> 0, stale |-> FALSE]
  /\ ops = [o \in OpIds |-> IdleOp]
  /\ view = IdleView
  /\ probe = None

\* characters the callers of increment_tts ask for
AdminChars == {5, 10}

NextAdmin ==
  \/ \E a \in OpActions, t \in Targets \cup {0}, k \in AuthOutcomes : OpInvoke(a, t, k)
  \/ \E o \in OpIds : RequestUpgradeCheck(o)
  \/ \E o \in OpIds : RequestUpgradePlan(o)
  \/ \E o \in OpIds : RequestUpgradeInsert(o)
  \/ \E o \in OpIds : ApproveRead(o)
  \/ \E o \in OpIds : ApproveUpdateRequest(o)
  \/ \E o \in OpIds : ApproveUpdateSub(o)
  \/ \E o \in OpIds : BlockUpdateRequests(o)
  \/ \E o \in OpIds : BlockUpdateSub(o)
  \/ \E o \in OpIds : CancelPro(o)
  \/ \E o \in OpIds : RejectRead(o)
  \/ \E o \in OpIds : RejectUpdate(o)
  \/ \E o \in OpIds : ExpiryRead(o)
  \/ \E o \in OpIds : ExpiryUpdate(o)
  \/ \E n \in AdminChars : IncInvoke(n)
  \/ \E r \in ReqIds : IncReceive(r)
  \/ \E r \in ReqIds : IncWrite(r)
  \/ ClockTick

SpecAdmin == InitAdmin /\ [][NextAdmin]_vars

\* C13: across reservations and the school's actions the stored tts_used
\* never decreases, except that the subscription update of approve_request
\* resets it to 0 with the transition to pro.
C13_UsedNeverDecreases ==
  [][(sub # None /\ sub' # None) =>
       \/ sub'.tts_used >= sub.tts_used
       \/ /\ \E o \in OpIds : ApproveUpdateSub(o)
          /\ sub'.tts_used = 0
          /\ sub'.plan = "pro"]_vars

\* the student's upgrade requests with status pending
PendingRequests == {i \in 1..Len(upgrade_requests) : upgrade_requests[i].status = "pending"}

\* C14: at every reachable state the student has at most one upgrade request
\* with status pending, concurrent request_upgrade calls included.
C14_AtMostOnePending == Cardinality(PendingRequests) <= 1

\* C15: when approve_request completes for a pending request of the school's
\* own student, the request is approved and the subscription is pro, active,
\* with tts_used 0 and an end date exactly 30 days after the approval.
C15_ApproveActivatesPro ==
  [][\A o \in OpIds :
       ApproveUpdateSub(o) =>
         /\ upgrade_requests'[ops[o].target].status = "approved"
         /\ sub' # None
         /\ sub'.plan = "pro"
         /\ sub'.is_active
         /\ sub'.tts_used = 0
         /\ sub'.end_date = Some(now + ThirtyDays)]_vars

\* a plan resolution or a usage check-and-reserve performed now reports a
\* Premium entitlement
EntitledNow ==
  \/ usageFromSubscription(get_subscription(sub), now).canUsePremium
  \/ \E n \in AdminChars : \/ checkAndTrackUsage(sub, n, now).canUse
                            \/ increment_tts(sub, n, now).canUse

\* no approve_request was sent after a block_student had completed
NoLaterApproval ==
  \A o \in OpIds : ops[o].action = "approve_request" => ~ops[o].afterBlock

\* C16: once block_student has completed, every plan resolution and every
\* usage check-and-reserve reports no Premium entitlement for the student,
\* as long as the school sends no new approval.
C16_BlockRevokes ==
  (BlockCompleted /\ NoLaterApproval) => ~EntitledNow

(***************************************************************************)
(* The audio cache of one text-to-speech instance: requests without a      *)
(* studentId look entries up and store them while time passes in steps of  *)
(* half the TTL.  The instance starts with an empty cache or with a full   *)
(* one whose oldest entry is the audio of text 1.                          *)
(***************************************************************************)
MaxCacheTicks == 3

HalfTtl == CACHE_TTL_MS \div 2

\* a full cache: the entry of text 1 and, after it, those of other texts
FullCache ==
  [i \in 1..ServerCacheMax |->
     IF i = 1 THEN [key |-> ServerKeyOf(1), audio |-> 1, timestamp |-> 0]
     ELSE [key |-> ServerCacheMax + i - 1, audio |-> ServerCacheMax + i - 1,
           timestamp |-> 0]]

InitCache ==
  /\ now = 0
  /\ ticks = 0
  /\ sub \in {None, [plan |-> "basic", is_active |-> TRUE, end_date |-> None,
                     tts_used |-> 0, tts_limit |-> DefaultLimit]}
  /\ audioCache \in {<<>>, FullCache}
  /\ reqs = [r \in ReqIds |-> IdleReq]
  /\ studentId = FALSE
  /\ usageInfo = None
  /\ fetch = [n |-> 0, resp |-> None]
  /\ isLoading = FALSE
  /\ isSpeaking = FALSE
  /\ error = Null
  /\ audioRef = None
  /\ abortControllerRef = None
  /\ clientAudioCache = <<>>
  /\ calls = [c \in CallIds |-> IdleCall]
  /\ native = [isSupported |-> FALSE, isSpeaking |-> FALSE, utt |-> 0, stale |-> FALSE]
  /\ upgrade_requests = <<>>
  /\ ops = [o \in OpIds |-> IdleOp]
  /\ view = IdleView
  /\ probe = None

\* time passes on the instance
CacheTick ==
  /\ ticks < MaxCacheTicks
  /\ ticks' = ticks + 1
  /\ now' = now + HalfTtl
  /\ UNCHANGED serverVars
  /\ UNCHANGED clientVars
  /\ UNCHANGED otherVars

NextCache ==
  \/ \E t \in OtherTexts : OtherInvoke(t, FALSE)
  \/ \E r \in ReqIds : TtsReceive(r)
  \/ \E r \in ReqIds, o \in VendorOutcomes : VendorReply(r, o)
  \/ \E r \in ReqIds : OtherReceive(r)
  \/ CacheTick

SpecCache == InitCache /\ [][NextCache]_vars

\* live entries of the cache under a key: stored no longer than the TTL ago
LiveEntries(key) ==
  {i \in 1..Len(audioCache) :
     /\ audioCache[i].key = key
     /\ now - audioCache[i].timestamp <= CACHE_TTL_MS}

\* the response of request r is a cache hit
IsHit(rec) == /\ rec.pc = "responded"
              /\ rec.resp[1].kind = "audio"
              /\ rec.resp[1].cached

\* C17: server cache round trip.  A generated audio is stored under its key
\* with the time of the store, the cache never exceeds its bound and loses
\* only its oldest entry; a lookup of a key with an entry stored no longer
\* than 30 minutes ago answers with that entry's audio, and a lookup of a
\* key whose entry is older or was evicted is a miss.
C17_CacheRoundTrip ==
  /\ [][\A r \in ReqIds :
          (TtsReceive(r) /\ CleanText[reqs[r].text] # <<>>) =>
            LET key == ServerKeyOf(reqs[r].text)
            IN  IF LiveEntries(key) # {}
                  THEN /\ IsHit(reqs'[r])
                       /\ \A i \in LiveEntries(key) :
                            reqs'[r].resp[1].audio = audioCache[i].audio
                  ELSE /\ reqs'[r].pc = "vendor"
                       /\ CacheGet(audioCache', key) = None]_vars
  /\ [][\A r \in ReqIds :
          VendorReply(r, "ok") =>
            /\ CacheGet(audioCache', ServerKeyOf(reqs[r].text)) =
                  Some([key |-> ServerKeyOf(reqs[r].text),
                        audio |-> reqs[r].text, timestamp |-> now])
            /\ Len(audioCache') <= ServerCacheMax
            /\ \A i \in 2..Len(audioCache) :
                  CacheGet(audioCache', audioCache[i].key) # None]_vars

\* a lookup was answered from the cache a whole TTL after the entry was
\* stored
C17_HitWithinTtl ==
  \E r \in ReqIds : /\ IsHit(reqs[r])
                     /\ \E i \in 1..Len(audioCache) :
                          /\ audioCache[i].key = ServerKeyOf(reqs[r].text)
                          /\ now - audioCache[i].timestamp = CACHE_TTL_MS

(***************************************************************************)
(* The sanitizers as functions: every text of up to MaxLen characters of   *)
(* the alphabet is passed through one implementation, and its result       *)
(* through the same implementation again.                                  *)
(***************************************************************************)
MaxLen == 4

Alphabet == {Star, Tick, Hash, Space, Newline, Emoji, LetterLow,
             LBracket, RBracket, LParen, RParen, Bullet}

BoundedTexts == UNION {[1..n -> Alphabet] : n \in 0..MaxLen}

Sanitizers == {"text-to-speech", "useNativeTTS", "useNativeTTS (Capacitor)"}

ApplySanitizer(impl, t) ==
  IF impl = "text-to-speech" THEN sanitizeText(t)
  ELSE IF impl = "useNativeTTS" THEN nativeSanitizeText(t)
  ELSE capacitorSanitizeText(t)

InitSanitize ==
  /\ probe \in {Some([impl |-> "none", text |-> t, out |-> <<>>]) : t \in BoundedTexts}
  /\ now = 0
  /\ ticks = 0
  /\ sub = None
  /\ audioCache = <<>>
  /\ reqs = [r \in ReqIds |-> IdleReq]
  /\ studentId = FALSE
  /\ usageInfo = None
  /\ fetch = [n |-> 0, resp |-> None]
  /\ isLoading = FALSE
  /\ isSpeaking = FALSE
  /\ error = Null
  /\ audioRef = None
  /\ abortControllerRef = None
  /\ clientAudioCache = <<>>
  /\ calls = [c \in CallIds |-> IdleCall]
  /\ native = [isSupported |-> FALSE, isSpeaking |-> FALSE, utt |-> 0, stale |-> FALSE]
  /\ upgrade_requests = <<>>
  /\ ops = [o \in OpIds |-> IdleOp]
  /\ view = IdleView

\* the text is sanitized
Sanitize(impl) ==
  /\ probe[1].impl = "none"
  /\ probe' = Some([probe[1] EXCEPT !.impl = impl,
                                    !.out = <<ApplySanitizer(impl, probe[1].text)>>])
  /\ UNCHANGED <<now, ticks, upgrade_requests, ops, view>>
  /\ UNCHANGED serverVars
  /\ UNCHANGED clientVars

\* the sanitized text is sanitized again
SanitizeAgain ==
  /\ probe[1].impl # "none"
  /\ Len(probe[1].out) = 1
  /\ probe' = Some([probe[1] EXCEPT
                      !.out = Append(@, ApplySanitizer(probe[1].impl, probe[1].out[1]))])
  /\ UNCHANGED <<now, ticks, upgrade_requests, ops, view>>
  /\ UNCHANGED serverVars
  /\ UNCHANGED clientVars

NextSanitize ==
  \/ \E impl \in Sanitizers : Sanitize(impl)
  \/ SanitizeAgain

SpecSanitize == InitSanitize /\ [][NextSanitize]_vars

\* C18: for every text and each of the three implementations, sanitizing the
\* sanitized text gives the sanitized text.
C18_SanitizeIdempotent ==
  Len(probe[1].out) = 2 => probe[1].out[2] = probe[1].out[1]

(***************************************************************************)
(* Properties of the routing of speak().                                   *)
(***************************************************************************)
\* speak() of call c went for the Premium backend: it invoked text-to-speech
\* or plays the premium audio it holds for the text
PremiumAttempted(c) == calls'[c].pc \in {"invoke", "audio"}

\* the condition under which the spec routes a text to Premium
ShouldUsePremium(text) ==
  /\ studentId
  /\ usageInfo # None
  /\ usageInfo.plan = "pro"
  /\ usageInfo.canUsePremium
  /\ usageInfo.ttsRemaining >= JsLength(CleanText[text])

\* C19: speak() of a text that is not blank attempts Premium if and only if
\* a student id is known, the plan status is resolved, the plan is pro,
\* canUsePremium is true and the remaining quota is at least the length of
\* the sanitized text.
C19_PremiumIffEntitled ==
  [][\A c \in CallIds, text \in TextIds :
       (Speak(c, text) /\ ~IsBlank[text])
         => (PremiumAttempted(c) <=> ShouldUsePremium(text))]_vars

(***************************************************************************)
(* The session of a Pro student near the end of the quota: 8 characters    *)
(* remain when the plan status is fetched.  The page's audio cache is      *)
(* empty or at its size limit.                                             *)
(***************************************************************************)
NearLimit == 8

\* the page's clientAudioCache at its size limit, holding other texts
FullClientCache == [i \in 1..ClientCacheMax |-> ServerCacheMax + i]

InitSession ==
  /\ now = 0
  /\ ticks = 0
  /\ sub = [plan |-> "pro", is_active |-> TRUE, end_date |-> Some(ThirtyDays),
            tts_used |-> DefaultLimit - NearLimit, tts_limit |-> DefaultLimit]
  /\ audioCache = <<>>
  /\ reqs = [r \in ReqIds |-> IdleReq]
  /\ studentId = TRUE
  /\ usageInfo = None
  /\ fetch = [n |-> 0, resp |-> None]
  /\ isLoading = FALSE
  /\ isSpeaking = FALSE
  /\ error = Null
  /\ audioRef = None
  /\ abortControllerRef = None
  /\ clientAudioCache \in {<<>>, FullClientCache}
  /\ calls = [c \in CallIds |-> IdleCall]
  /\ native \in {[isSupported |-> b, isSpeaking |-> FALSE, utt |-> 0, stale |-> FALSE] :
                   b \in BOOLEAN}
  /\ upgrade_requests = <<>>
  /\ ops = [o \in OpIds |-> IdleOp]
  /\ view = IdleView
  /\ probe = None

SpecSession == InitSession /\ [][NextClient]_vars

\* a speak() of this session was routed to Web TTS because the text exceeded
\* the remaining quota: only that branch clears usingPremium on a pro status
\* here, where the fetched status of the student is entitled
MarkedLimitReached ==
  /\ usageInfo # None
  /\ usageInfo.plan = "pro"
  /\ ~usageInfo.usingPremium

\* C20: once a speak() of a pro student has been routed to Web TTS because
\* of quota exhaustion, the cached status has canUsePremium false and stays
\* so, and every later speak() of a text that is not blank goes to Web TTS
\* without attempting Premium.
C20_ExhaustedStaysFallback ==
  /\ [](MarkedLimitReached => ~usageInfo.canUsePremium)
  /\ [][\A c \in CallIds, text \in TextIds :
          (MarkedLimitReached /\ Speak(c, text) /\ ~IsBlank[text])
            => ~PremiumAttempted(c) /\ calls'[c].web]_vars

(***************************************************************************)
(* Properties of the client's usage view.                                  *)
(***************************************************************************)
\* the response call c is waiting for has arrived from the function
ResponseOf(c) == reqs[calls[c].req].resp[1]

\* C21: after every Premium attempt whose response carries the store's usage,
\* granted or denied, the cached ttsUsed, ttsRemaining and canUsePremium are
\* those of the response, and after a denial the cached view does not say
\* canUsePremium.
C21_ViewReconciled ==
  [][\A c \in CallIds :
       (/\ PremiumResponse(c)
        /\ ResponseOf(c).kind \in {"audio", "fallback"})
         => /\ ResponseOf(c).usageInfo # NoInfo =>
                 /\ usageInfo'.ttsUsed = ResponseOf(c).usageInfo.ttsUsed
                 /\ usageInfo'.ttsRemaining = ResponseOf(c).usageInfo.ttsRemaining
                 /\ usageInfo'.canUsePremium = ResponseOf(c).usageInfo.canUsePremium
            /\ ResponseOf(c).kind = "fallback" => ~usageInfo'.canUsePremium]_vars

(***************************************************************************)
(* Properties of the expiry sweep and the revocation paths.                *)
(***************************************************************************)
\* a subscription the sweep is to revert at time t
PastEnd(s, t) == s # None /\ s.plan = "pro" /\ s.end_date # None /\ s.end_date[1] < t

\* C22: check_expiry reverts a subscription with plan pro and an end date
\* before the sweep to plan basic with end date null, and changes no
\* subscription that is basic or is pro with a null or future end date.
C22_SweepRevertsOnlyExpired ==
  [][\A o \in OpIds :
       (ExpiryRead(o) \/ ExpiryUpdate(o)) =>
         /\ ~PastEnd(sub, now) => sub' = sub
         /\ (PastEnd(sub, now) /\ ops'[o].pc = "done")
              => sub'.plan = "basic" /\ sub'.end_date = None]_vars

(***************************************************************************)
(* Properties of the bounds of the audio caches.                           *)
(***************************************************************************)
\* the keys of a cache of the client, and of the server
ClientKeys(cache) == {cache[i] : i \in 1..Len(cache)}

ServerKeys(cache) == {cache[i].key : i \in 1..Len(cache)}

\* C23: the server cache never holds more than 100 entries and the client
\* cache never more than 50, and a store that removes an entry removes the
\* one inserted earliest.
C23_CachesBoundedFifo ==
  /\ [](Len(audioCache) <= ServerCacheMax /\ Len(clientAudioCache) <= ClientCacheMax)
  /\ [][\A c \in CallIds :
          PremiumResponse(c) =>
            \A i \in 2..Len(clientAudioCache) :
              clientAudioCache[i] \in ClientKeys(clientAudioCache')]_vars
  /\ [][\A r \in ReqIds :
          VendorReply(r, "ok") =>
            \A i \in 2..Len(audioCache) :
              audioCache[i].key \in ServerKeys(audioCache')]_vars

(***************************************************************************)
(* Properties of stop().                                                   *)
(***************************************************************************)
\* C24: after stop() no audio element and no abort controller is held and
\* isSpeaking and isLoading are false, whatever was or was not playing, and
\* a second stop() would leave every part of the state as it is.
C24_StopIdempotent ==
  [][Stop =>
       /\ audioRef' = None
       /\ abortControllerRef' = None
       /\ ~isSpeaking'
       /\ ~isLoading'
       /\ ~native'.isSpeaking
       /\ (stop(ClientState) = ClientState)'
       /\ (SyncEffect(stop(ClientState)) = isSpeaking)']_vars

\* stop() was called while the first speak() was waiting for its Premium
\* response, and nothing was started since
C24_StoppedWhileLoading ==
  /\ calls[1].pc = "invoke"
  /\ calls[1].ctl = "aborted"
  /\ \A c \in CallIds : c # 1 => calls[c].pc = "idle"
  /\ audioRef = None
  /\ abortControllerRef = None
  /\ ~isSpeaking
  /\ ~isLoading

\* this step is the subscription update of a revocation by invocation o
RevocationStep(o) ==
  \/ BlockUpdateSub(o)
  \/ CancelPro(o) /\ ops[o].auth = "ok"
  \/ ExpiryUpdate(o)

\* C25: the subscription update of block_student, of cancel_pro and of
\* check_expiry leaves the row with plan basic, end date null and is_active
\* true, and leaves tts_used and tts_limit as they were.
C25_RevocationFrame ==
  [][\A o \in OpIds :
       (RevocationStep(o) /\ sub # None) =>
         /\ sub'.plan = "basic"
         /\ sub'.end_date = None
         /\ sub'.is_active
         /\ sub'.tts_used = sub.tts_used
         /\ sub'.tts_limit = sub.tts_limit]_vars

\* a Pro student who had used Premium characters was revoked: the row is
\* basic and still carries the usage
C25_RevokedWithUsage ==
  /\ \E o \in OpIds : /\ ops[o].action \in {"block_student", "cancel_pro", "check_expiry"}
                      /\ ops[o].pc = "done"
                      /\ ops[o].resp = 200
                      /\ ops[o].auth = "ok"
  /\ \E r \in ReqIds : /\ reqs[r].pc = "responded"
                       /\ reqs[r].resp[1].kind = "inc"
                       /\ reqs[r].resp[1].usePremiumTTS
  /\ sub # None
  /\ sub.plan = "basic"
  /\ sub.end_date = None
  /\ sub.is_active
  /\ sub.tts_used > 0

(***************************************************************************)
(* The school's actions together with every character count the            *)
(* increment_tts action accepts: its validation (!body.ttsCharacters)      *)
(* turns away 0 and a missing count and nothing else.                      *)
(***************************************************************************)
QuotaChars == {-10, 10}

NextQuota ==
  \/ \E a \in OpActions, t \in Targets \cup {0}, k \in AuthOutcomes : OpInvoke(a, t, k)
  \/ \E o \in OpIds : RequestUpgradeCheck(o)
  \/ \E o \in OpIds : RequestUpgradePlan(o)
  \/ \E o \in OpIds : RequestUpgradeInsert(o)
  \/ \E o \in OpIds : ApproveRead(o)
  \/ \E o \in OpIds : ApproveUpdateRequest(o)
  \/ \E o \in OpIds : ApproveUpdateSub(o)
  \/ \E o \in OpIds : BlockUpdateRequests(o)
  \/ \E o \in OpIds : BlockUpdateSub(o)
  \/ \E o \in OpIds : CancelPro(o)
  \/ \E o \in OpIds : RejectRead(o)
  \/ \E o \in OpIds : RejectUpdate(o)
  \/ \E o \in OpIds : ExpiryRead(o)
  \/ \E o \in OpIds : ExpiryUpdate(o)
  \/ \E n \in QuotaChars : IncInvoke(n)
  \/ \E r \in ReqIds : IncReceive(r)
  \/ \E r \in ReqIds : IncWrite(r)
  \/ ClockTick

SpecQuota == InitAdmin /\ [][NextQuota]_vars

\* C26: in every reachable state the stored tts_used of a student is
\* between 0 and the stored tts_limit, both included.
C26_UsedWithinLimit ==
  sub # None => (0 <= sub.tts_used /\ sub.tts_used <= sub.tts_limit)

\* invocation o is an approve_request or reject_request that was answered
\* with success
Processed(o) ==
  /\ ops[o].action \in {"approve_request", "reject_request"}
  /\ ops[o].pc = "done"
  /\ ops[o].resp = 200

\* C27: an upgrade request is processed at most once: of two approve_request
\* or reject_request invocations on the same request at most one is answered
\* with success, the other one gets an error; and an approval or rejection
\* writes only to a request that is pending.
C27_ProcessedAtMostOnce ==
  /\ [](\A o1, o2 \in OpIds :
          (o1 # o2 /\ ops[o1].target = ops[o2].target) =>
            ~(Processed(o1) /\ Processed(o2)))
  /\ [][\A o \in OpIds :
          (ApproveUpdateRequest(o) \/ ApproveUpdateSub(o) \/ RejectUpdate(o)) =>
            upgrade_requests[ops[o].target].status
              \in {"pending"} \cup (IF ops[o].pc = "upd_sub" THEN {"approved"} ELSE {})]_vars

\* this step is the ledger update of granted request r and its audio comes
\* from the server cache
GrantedCacheHit(r) ==
  /\ TtsWrite(r)
  /\ reqs[r].chk[1].canUse
  /\ reqs'[r].pc = "responded"
  /\ reqs'[r].resp[1].kind = "audio"
  /\ reqs'[r].resp[1].cached

\* this step is a speak() whose audio comes from the client cache
ClientCacheHit(c, text) ==
  /\ Speak(c, text)
  /\ ~IsBlank[text]
  /\ Route(studentId, usageInfo, RawLen[text]).usePremium
  /\ ClientCacheHas(clientAudioCache, ClientKeyOf(text))

\* C28: the reservation comes before the server cache lookup: the step of a
\* granted request that is answered from the server cache raises the stored
\* tts_used by the length the request is billed for; a speak() answered from
\* the client cache sends no request and leaves the stored usage as it was.
C28_CacheHitStillCharged ==
  [][/\ \A r \in ReqIds :
          GrantedCacheHit(r) => sub'.tts_used = sub.tts_used + reqs[r].n
     /\ \A c \in CallIds, text \in TextIds :
          ClientCacheHit(c, text) => (reqs' = reqs /\ sub' = sub)]_vars

(***************************************************************************)
(* The school's session.  A row of session_tokens as validateSchoolSession *)
(* selects it (None when no row has the token), the school the request     *)
(* names (body.schoolUuid) and the school of the student.                  *)
(***************************************************************************)
Schools == {"school1", "school2"}

\* students.school_id of the student
StudentSchool == "school1"

SessionRows ==
  {None} \cup
  {Some([user_id |-> u, user_type |-> k, expires_at |-> e, is_revoked |-> v]) :
     u \in Schools, k \in {"school", "admin"},
     e \in {TickSec - 1, ThirtyDays}, v \in BOOLEAN}

\* a validation that does not look at is_revoked
validateSchoolSessionIgnoresRevoked(row, expectedSchoolId, t) ==
  IF row = None THEN [valid |-> FALSE, schoolUuid |-> None]
  ELSE IF row[1].expires_at < t THEN [valid |-> FALSE, schoolUuid |-> None]
  ELSE IF row[1].user_type # "school" THEN [valid |-> FALSE, schoolUuid |-> None]
  ELSE IF expectedSchoolId # "" /\ row[1].user_id # expectedSchoolId
    THEN [valid |-> FALSE, schoolUuid |-> None]
  ELSE [valid |-> TRUE, schoolUuid |-> Some(row[1].user_id)]

\* validateSchoolSession(supabase, token, expectedSchoolId) at time t
validateSchoolSession(row, expectedSchoolId, t) ==
  IF row = None THEN [valid |-> FALSE, schoolUuid |-> None]
  ELSE IF row[1].is_revoked \/ row[1].expires_at < t
    THEN [valid |-> FALSE, schoolUuid |-> None]
  ELSE IF row[1].user_type # "school" THEN [valid |-> FALSE, schoolUuid |-> None]
  ELSE IF expectedSchoolId # "" /\ row[1].user_id # expectedSchoolId
    THEN [valid |-> FALSE, schoolUuid |-> None]
  ELSE [valid |-> TRUE, schoolUuid |-> Some(row[1].user_id)]

\* what the handler's two checks come to: the validation (401 when it
\* fails) and "student?.school_id !== body.schoolUuid"
SessionOutcome(row, schoolUuid, t) ==
  IF ~validateSchoolSession(row, schoolUuid, t).valid THEN "invalid"
  ELSE IF StudentSchool # schoolUuid THEN "foreign"
  ELSE "ok"

\* the actions of a school
OperatorActions == {"approve_request", "reject_request", "block_student", "cancel_pro"}

\* a school action is invoked with a session token and a school id
OperatorInvoke(action, target, row, schoolUuid) ==
  /\ action \in OperatorActions
  /\ OpInvoke(action, target, SessionOutcome(row, schoolUuid, now))

NextOperator ==
  \/ \E a \in OperatorActions, t \in Targets \cup {0}, row \in SessionRows,
        s \in Schools : OperatorInvoke(a, t, row, s)
  \/ \E a \in OpActions \ OperatorActions : OpInvoke(a, 0, "ok")
  \/ \E o \in OpIds : RequestUpgradeCheck(o)
  \/ \E o \in OpIds : RequestUpgradePlan(o)
  \/ \E o \in OpIds : RequestUpgradeInsert(o)
  \/ \E o \in OpIds : ApproveRead(o)
  \/ \E o \in OpIds : ApproveUpdateRequest(o)
  \/ \E o \in OpIds : ApproveUpdateSub(o)
  \/ \E o \in OpIds : BlockUpdateRequests(o)
  \/ \E o \in OpIds : BlockUpdateSub(o)
  \/ \E o \in OpIds : CancelPro(o)
  \/ \E o \in OpIds : RejectRead(o)
  \/ \E o \in OpIds : RejectUpdate(o)
  \/ \E o \in OpIds : ExpiryRead(o)
  \/ \E o \in OpIds : ExpiryUpdate(o)
  \/ ClockTick

SpecOperator == InitAdmin /\ [][NextOperator]_vars

\* the conditions under which a school action may write
Authorised(row, schoolUuid, t) ==
  /\ row # None
  /\ ~row[1].is_revoked
  /\ ~(row[1].expires_at < t)
  /\ row[1].user_type = "school"
  /\ row[1].user_id = schoolUuid
  /\ StudentSchool = schoolUuid

\* C29: a school action (approve_request, reject_request, block_student,
\* cancel_pro) passes the handler's checks exactly when its session token
\* exists, is not revoked, has not expired, is of type school and is bound
\* to the school the request names, and the student belongs to that school;
\* an invocation that does not pass is answered with an error and changes
\* no upgrade request and no subscription.
C29_OnlyAuthorisedMutates ==
  [][/\ FreeOps # {} =>
          \A row \in SessionRows, s \in Schools :
            OperatorInvoke(ops'[NextOp].action, ops'[NextOp].target, row, s) =>
              (ops'[NextOp].auth = "ok" <=> Authorised(row, s, now))
     /\ \A o \in OpIds :
          (/\ ops[o].action \in OperatorActions
           /\ ops[o].auth # "ok"
           /\ ops'[o] # ops[o]) =>
            /\ sub' = sub
            /\ upgrade_requests' = upgrade_requests
            /\ ops'[o].pc = "done"
            /\ ops'[o].resp \in {401, 403, 404}]_vars

\* one school action was turned away and another one, authorised, changed
\* the student's rows
C29_RefusedAndServed ==
  \E o1, o2 \in OpIds :
    /\ ops[o1].action \in OperatorActions
    /\ ops[o1].auth # "ok"
    /\ ops[o1].pc = "done"
    /\ ops[o1].resp \in {401, 403, 404}
    /\ ops[o2].action \in {"block_student", "cancel_pro"}
    /\ ops[o2].auth = "ok"
    /\ ops[o2].pc = "done"
    /\ ops[o2].resp = 200
    /\ sub # None
    /\ sub.plan = "basic"

(***************************************************************************)
(* The session under the scheduling the platform gives: an event that is   *)
(* due is delivered (the response of an invocation, the events of an Audio *)
(* element and of an utterance), and a function that was invoked runs to   *)
(* its end.  What the user does (speak, stop) and a network failure are    *)
(* not forced.                                                             *)
(***************************************************************************)
FairSession ==
  /\ WF_vars(FetchReceive)
  /\ \A r \in ReqIds : WF_vars(TtsReceive(r))
  /\ \A r \in ReqIds : WF_vars(TtsWrite(r))
  /\ \A r \in ReqIds : WF_vars(\E o \in VendorOutcomes : VendorReply(r, o))
  /\ \A c \in CallIds : WF_vars(PremiumResponse(c))
  /\ \A c \in CallIds : WF_vars(AudioPlay(c) \/ AudioPlayReject(c) \/ AudioError(c))
  /\ \A c \in CallIds : WF_vars(AudioEnded(c) \/ AudioError(c))
  /\ WF_vars(NativeEnd)
  /\ WF_vars(NativeCancelled)

SpecSessionFair == InitSession /\ [][NextClient]_vars /\ FairSession

\* isSpeaking as the hook returns it: state.isSpeaking || nativeTTS.isSpeaking
ExposedSpeaking == isSpeaking \/ native.isSpeaking

\* no request is awaited, no Audio element is loading or playing and no
\* utterance is being spoken
NothingPlaying ==
  /\ \A c \in CallIds : calls[c].pc # "invoke"
  /\ \A c \in CallIds : calls[c].aud \notin {"loading", "playing"}
  /\ native.utt = 0

\* C30: once nothing is playing, the isLoading and isSpeaking the hook
\* returns are eventually both false.
C30_FlagsEventuallyOff ==
  NothingPlaying ~> (~isLoading /\ ~ExposedSpeaking)

====
